---- MODULE Spec2Model ----
(***************************************************************************)
(* Model of obsidian-survey-note: the section codec (parseMarkdownContent  *)
(* and the document built by saveMarkdown), the CodeMirror SurveyNoteView  *)
(* (src/view.ts:2250-3102) and the textarea SurveyNoteView                 *)
(* (src/view.ts:16-389) with their debounced autosave, the decoration      *)
(* scanner and the list and checkbox toggles of the CodeMirror editor      *)
(* (src/view.ts:1145-1863, 2767-2931), and the view's focus, failing vault *)
(* calls and onClose.                                                      *)
(*                                                                         *)
(* Texts are sequences of one-character strings, so that split, trim,      *)
(* startsWith and substring are computed as the code computes them.        *)
(***************************************************************************)
EXTENDS Integers, Sequences, FiniteSets, TLC

VARIABLES
    file,          \* vault content of the bound file (text)
    fileCache,     \* metadataCache.getFileCache(file): [frontmatter, endOffset]
    bound,         \* this.file is set (setState has run)
    editorData,    \* this.editorData: partial map title -> text
    editors,       \* this.editors[title].state.doc: partial map title -> text
    saveTimeout,   \* this.saveTimeout: 0 = null, else a timer handle
    timers,        \* armed setTimeout timers: handle -> remaining ms
    isUpdating,    \* this.isUpdating
    saves,         \* saveMarkdown invocations suspended at an await
    refreshes,     \* refreshView invocations suspended at an await
    modifyEvents,  \* vault 'modify' notifications not yet delivered
    fileChangeHandler, \* this.fileChangeHandler is set (textarea view)
    notices,       \* number of Notices shown so far, modulo 2
    hist,          \* observations of the run (history, read by the properties only)
    codec,         \* the codec experiment: [x, ys] (SpecCodec only)
    cm,            \* one section's EditorView: [doc, selection, collapseStates, decorations, ...] (SpecEditor only)
    ui,            \* the view's leaf: [focus, closed, ...] (SpecLifecycle only)
    plugin         \* the SurveyNotePlugin and the active leaf (SpecPlugin only)

vars == <<file, fileCache, bound, editorData, editors, saveTimeout, timers,
          isUpdating, saves, refreshes, modifyEvents,
                   fileChangeHandler, notices, hist, codec, cm, ui, plugin>>

\* the plugin after onload, with the active leaf showing a file in a Markdown view:
\* no manual switch going on, no file viewed; switches are the setSurveyNoteView
\* and setMarkdownView calls not yet over (awaiting setViewState, or waiting for
\* their reset timer), autoSwitches the armed timers of
\* checkAndAutoSwitchToSurveyNote, both with the remaining milliseconds
Loaded ==
    [manualViewSwitch |-> FALSE, viewedFiles |-> {}, view |-> "markdown",
     file |-> "a.md", switches |-> <<>>, autoSwitches |-> <<>>]

\* no editor has the focus
NoFocus == <<>>

\* the leaf of an open view: no editor focused, onClose not called; pendingAtClose
\* and firesAtClose record, at onClose, whether a debounce timer was armed and how
\* often the debounce callback had run
Attached ==
    [focus |-> NoFocus, closed |-> FALSE, pendingAtClose |-> FALSE, firesAtClose |-> 0]

-----------------------------------------------------------------------------
(* JavaScript string primitives over sequences of characters *)

\* String.prototype.trim's white space, as far as the modelled texts hold it
IsWhitespace(c) == c \in {" ", "\n", "\t", "\r"}

RECURSIVE TrimStart(_)
TrimStart(s) ==
    IF s = <<>> THEN <<>>
    ELSE IF IsWhitespace(Head(s)) THEN TrimStart(Tail(s)) ELSE s

RECURSIVE TrimEnd(_)
TrimEnd(s) ==
    IF s = <<>> THEN <<>>
    ELSE IF IsWhitespace(s[Len(s)]) THEN TrimEnd(SubSeq(s, 1, Len(s) - 1)) ELSE s

\* s.trim()
Trim(s) == TrimEnd(TrimStart(s))

\* s.startsWith(p)
StartsWith(s, p) == Len(p) <= Len(s) /\ SubSeq(s, 1, Len(p)) = p

\* s.substring(0, n), n clamped to the length as JavaScript does
Substring0(s, n) == SubSeq(s, 1, IF n > Len(s) THEN Len(s) ELSE n)

\* s.split("\n"): the pieces between the line breaks, Break(r) being the place of
\* the r-th of them (of the start of s for r = 0, of its end after the last one)
SplitLines(s) ==
    LET nl == {i \in 1..Len(s) : s[i] = "\n"}
        Break(r) == IF r = 0 THEN 0
                    ELSE IF r > Cardinality(nl) THEN Len(s) + 1
                    ELSE CHOOSE i \in nl : Cardinality({j \in nl : j < i}) = r - 1
    IN [r \in 1..(Cardinality(nl) + 1) |->
          SubSeq(s, Break(r - 1) + 1, Break(r) - 1)]

\* lines.join("\n")
RECURSIVE JoinLines(_)
JoinLines(ls) ==
    IF ls = <<>> THEN <<>>
    ELSE IF Len(ls) = 1 THEN ls[1]
    ELSE ls[1] \o <<"\n">> \o JoinLines(Tail(ls))

-----------------------------------------------------------------------------
(* CodeMirror view: section titles, src/view.ts:405-411 *)

PURPOSE == <<"P","u","r","p","o","s","e">>
SUMMARY == <<"S","u","m","m","a","r","y">>
CONTENT1 == <<"C","o","n","t","e","n","t","1">>
CONTENT2 == <<"C","o","n","t","e","n","t","2">>
CONTENT3 == <<"C","o","n","t","e","n","t","3">>

\* SECTIONS: key -> title
SECTIONS ==
    [BACKGROUND |-> PURPOSE, SUMMARY |-> SUMMARY, CONTENT1 |-> CONTENT1,
     CONTENT2 |-> CONTENT2, CONTENT3 |-> CONTENT3]

\* Object.values(SECTIONS).sort((a, b) => b.length - a.length): a stable sort,
\* the three 8-character titles first, then the two 7-character ones
ParseSectionOrder == <<CONTENT1, CONTENT2, CONTENT3, PURPOSE, SUMMARY>>

\* sectionOrder of saveMarkdown
SaveSectionOrder == <<PURPOSE, SUMMARY, CONTENT1, CONTENT2, CONTENT3>>

\* the heading marker of parseMarkdownContent and saveMarkdown: "# "
Marker == <<"#", " ">>

\* the heading a line opens: the first title of the order with
\* line.trim().startsWith(`${marker}${title}`), or <<>> when the line is no heading
HeadingOf(line, marker, order) ==
    LET hits == {i \in 1..Len(order) : StartsWith(Trim(line), marker \o order[i])}
    IN IF hits = {} THEN <<>>
       ELSE order[CHOOSE i \in hits : \A j \in hits : i <= j]

\* sections[key] = value on a Record<string, string>
SetKey(rec, key, value) ==
    [k \in (DOMAIN rec) \cup {key} |-> IF k = key THEN value ELSE rec[k]]

\* the for-loop of parseMarkdownContent over lines[i..]
RECURSIVE ParseLoop(_, _, _, _, _, _)
ParseLoop(lines, i, currentSection, sections, marker, order) ==
    IF i > Len(lines) THEN sections
    ELSE LET line == lines[i]
             h == HeadingOf(line, marker, order)
         IN IF h # <<>>
            THEN ParseLoop(lines, i + 1, h, SetKey(sections, h, <<>>), marker, order)
            ELSE IF currentSection # <<>>
            THEN ParseLoop(lines, i + 1, currentSection,
                           SetKey(sections, currentSection,
                                  sections[currentSection] \o line \o <<"\n">>),
                           marker, order)
            ELSE ParseLoop(lines, i + 1, currentSection, sections, marker, order)

\* the body of parseMarkdownContent, shared by both views
ParseWith(content, marker, order) ==
    LET sections == ParseLoop(SplitLines(content), 1, <<>>, <<>>, marker, order)
    IN [k \in DOMAIN sections |-> Trim(sections[k])]

\* parseMarkdownContent(content) of the CodeMirror view
parseMarkdownContent(content) == ParseWith(content, Marker, ParseSectionOrder)

\* a section is emitted by saveMarkdown: defined and not blank
EmitsSection(data, t) == t \in DOMAIN data /\ Trim(data[t]) # <<>>

\* newSectionContent of saveMarkdown, built over order[i..]
RECURSIVE NewSectionContent(_, _, _)
NewSectionContent(data, order, i) ==
    IF i > Len(order) THEN <<>>
    ELSE LET t == order[i]
         IN (IF EmitsSection(data, t)
             THEN Marker \o t \o <<"\n">> \o Trim(data[t]) \o <<"\n", "\n">>
             ELSE <<>>)
            \o NewSectionContent(data, order, i + 1)

\* finalContent of saveMarkdown, given the cache entry fetched before the read and
\* the text the read returned
FinalContent(newSectionContent, cache, originalContent) ==
    IF cache.frontmatter
    THEN Trim(Substring0(originalContent, cache.endOffset))
         \o <<"\n", "\n">> \o Trim(newSectionContent)
    ELSE Trim(newSectionContent)

\* the write decision of saveMarkdown
NeedsWrite(originalContent, finalContent) ==
    Trim(originalContent) # Trim(finalContent)

-----------------------------------------------------------------------------
(* The metadata collaborator: app.metadataCache.getFileCache(file) *)

\* offset just past line j of lines (the lines joined by "\n")
RECURSIVE OffsetAfterLine(_, _)
OffsetAfterLine(lines, j) ==
    IF j = 0 THEN 0
    ELSE OffsetAfterLine(lines, j - 1) + Len(lines[j]) + (IF j > 1 THEN 1 ELSE 0)

\* a line of a frontmatter block that yields a key: "key: value", not a YAML comment
IsYamlEntry(line) ==
    /\ ~StartsWith(Trim(line), <<"#">>)
    /\ \E i \in 2..Len(line) : line[i] = ":"

NoFrontmatter == [frontmatter |-> FALSE, endOffset |-> 0]

\* the cache entry the collaborator computes for a text: a block opened by "---" on
\* the first line and closed by the next "---" line; frontmatter is set when the
\* block holds a key, and frontmatterPosition.end.offset is the end of the closing line
MetadataOf(text) ==
    LET lines == SplitLines(text)
        dashes == <<"-", "-", "-">>
        closing == {j \in 2..Len(lines) : TrimEnd(lines[j]) = dashes}
    IN IF TrimEnd(lines[1]) = dashes /\ closing # {}
       THEN LET j == CHOOSE c \in closing : \A d \in closing : c <= d
            IN IF \E i \in 2..(j - 1) : IsYamlEntry(lines[i])
               THEN [frontmatter |-> TRUE, endOffset |-> OffsetAfterLine(lines, j)]
               ELSE NoFrontmatter
       ELSE NoFrontmatter

-----------------------------------------------------------------------------
(* The codec experiment: serialize(parse(x)) applied repeatedly to a document *)

MaxDocLines == 5

LineKinds ==
    { <<>>,
      <<"a">>,
      <<" ", "a">>,
      <<"#", " ">> \o PURPOSE,
      <<"#", " ">> \o SUMMARY,
      <<"#", "#", " ", "x">>,
      <<"-", "-", "-">>,
      <<"k", ":">> }

\* the document "## Purpose\nWhy\n\n## Summary\nTL;DR\n"
ScenarioDoc ==
    <<"#", "#", " ">> \o PURPOSE \o <<"\n", "W", "h", "y", "\n", "\n", "#", "#", " ">>
      \o SUMMARY \o <<"\n", "T", "L", ";", "D", "R", "\n">>

CodecDocs ==
    { JoinLines(ls) : ls \in UNION { [1..n -> LineKinds] : n \in 1..MaxDocLines } }
      \cup {ScenarioDoc}

\* the text saveMarkdown computes for a view that has parsed the text d, with the
\* cache entry of d: renderView (parseMarkdown) followed by saveMarkdown
SerializeParse(d) ==
    FinalContent(NewSectionContent(parseMarkdownContent(d), SaveSectionOrder, 1),
                 MetadataOf(d), d)

Idle ==
    /\ bound = FALSE
    /\ editorData = <<>>
    /\ editors = <<>>
    /\ saveTimeout = 0
    /\ timers = <<>>
    /\ isUpdating = FALSE
    /\ saves = {}
    /\ refreshes = {}
    /\ modifyEvents = <<>>
    /\ fileChangeHandler = FALSE
    /\ notices = 0
    /\ hist = <<>>

InitCodec ==
    /\ Idle
    /\ file = <<>>
    /\ fileCache = NoFrontmatter
    /\ codec \in { [x |-> d, ys |-> <<>>] : d \in CodecDocs }
    /\ cm = <<>>
    /\ ui = Attached
    /\ plugin = Loaded

\* one more application of serialize(parse(.)) to the last text
CodecRoundTrip ==
    /\ Len(codec.ys) < 2
    /\ LET last == IF codec.ys = <<>> THEN codec.x ELSE codec.ys[Len(codec.ys)]
       IN codec' = [codec EXCEPT !.ys = Append(@, SerializeParse(last))]
    /\ UNCHANGED <<file, fileCache, bound, editorData, editors, saveTimeout, timers,
                   isUpdating, saves, refreshes, modifyEvents,
                   fileChangeHandler, notices, hist, cm, ui, plugin>>

NextCodec == CodecRoundTrip

SpecCodec == InitCodec /\ [][NextCodec]_vars

\* index of the first recognized heading line of lines, or Len(lines) + 1
FirstHeading(lines) ==
    LET hs == {i \in 1..Len(lines) : HeadingOf(lines[i], Marker, ParseSectionOrder) # <<>>}
    IN IF hs = {} THEN Len(lines) + 1 ELSE CHOOSE i \in hs : \A j \in hs : i <= j

\* the lines of a text lying outside every recognized section
OutsideLines(text) ==
    LET lines == SplitLines(text)
    IN {lines[i] : i \in 1..(FirstHeading(lines) - 1)}

LinesOf(text) == LET lines == SplitLines(text) IN {lines[i] : i \in 1..Len(lines)}

\* C5: every line outside the recognized sections of the parsed file (frontmatter,
\* text before the first recognized heading, text under unknown headings) is still a
\* line of the document the next save writes.
C5_UnrecognizedContentKept ==
    (Len(codec.ys) >= 1 /\ NeedsWrite(codec.x, codec.ys[1]))
        => OutsideLines(codec.x) \subseteq LinesOf(codec.ys[1])

\* C7: serialize(parse(serialize(parse(x)))) = serialize(parse(x)) for every text x.
C7_SerializeParseFixedPoint ==
    Len(codec.ys) = 2 => codec.ys[2] = codec.ys[1]

-----------------------------------------------------------------------------
(* The CodeMirror SurveyNoteView, src/view.ts:2250-3102 *)

\* debounce window of debouncedSave, in milliseconds
DebounceMs == 1000

\* granularity of the clock: time advances by at most TickMs at a step
TickMs == 500

\* bounds of the environment
MaxEvents == 2

Titles == {SaveSectionOrder[i] : i \in 1..Len(SaveSectionOrder)}

\* sections the modelled user types into, and the texts typed
EditTitles == {PURPOSE}
EditTexts == { <<"a">>, <<"b">> }

\* the link generateMarkdownLink returns for a dropped image, and an image path
ImagePath == <<"i">>
ImageLink == <<"!", "[", "[">> \o ImagePath \o <<"]", "]">>

\* texts the bound file holds, initially or after an external modification
FileDocs ==
    { JoinLines(<<Marker \o PURPOSE, <<"a">>>>),
      JoinLines(<<Marker \o PURPOSE, ImageLink, <<>>, Marker \o SUMMARY, ImageLink>>),
      JoinLines(<<<<"-", "-", "-">>, <<"k", ":">>, <<"-", "-", "-">>,
                  Marker \o PURPOSE, <<"a">>>>),
      JoinLines(<<<<"-", "-", "-">>, <<"k", ":">>, <<"k", ":">>, <<"-", "-", "-">>,
                  Marker \o PURPOSE, <<"a">>>>) }

Min(a, b) == IF a <= b THEN a ELSE b

\* this.editorData[title] || ""
OrEmpty(rec, t) == IF t \in DOMAIN rec THEN rec[t] ELSE <<>>

\* a map without one key
Without(f, k) == [x \in (DOMAIN f) \ {k} |-> f[x]]

\* a clearTimeout that cancels nothing
ClearTimeoutNoop(ts, h) == ts

\* if (this.saveTimeout) clearTimeout(this.saveTimeout): the armed timers afterwards
ClearTimeout(ts, h) == IF h # 0 THEN Without(ts, h) ELSE ts

\* the handle setTimeout returns: one that no armed timer holds
FreshHandle(ts) ==
    CHOOSE h \in 1..(Cardinality(DOMAIN ts) + 1) :
        h \notin DOMAIN ts /\ \A g \in 1..(h - 1) : g \in DOMAIN ts

\* debouncedSave(): the pending timer is cleared and a new one armed
debouncedSave ==
    LET cleared == ClearTimeout(timers, saveTimeout)
        h == FreshHandle(cleared)
    IN /\ timers' = SetKey(cleared, h, DebounceMs)
       /\ saveTimeout' = h

\* if (!this.file || this.isUpdating) return
SaveDropped == ~bound \/ isUpdating

FreshSaveId == CHOOSE i \in 1..(Cardinality(saves) + 1) : \A s \in saves : s.id # i

\* saveMarkdown() up to its first await, called with this.editorData = data: the
\* request is dropped, or the flag is set, newSectionContent is built, the cache
\* entry is fetched and the read is issued
saveMarkdown(data) ==
    IF SaveDropped
    THEN /\ UNCHANGED <<isUpdating, saves>>
    ELSE /\ isUpdating' = TRUE
         /\ saves' = saves \cup
              {[id |-> FreshSaveId, pc |-> "read",
                newSectionContent |-> NewSectionContent(data, SaveSectionOrder, 1),
                cache |-> fileCache]}

\* the frontmatter block of a text: its first characters up to the end of the block
FrontmatterOf(text) == Substring0(text, MetadataOf(text).endOffset)

\* a written document begins with the frontmatter block of the text the save read,
\* followed by a blank line
FrontmatterKept(originalContent, finalContent) ==
    MetadataOf(originalContent).frontmatter
        => StartsWith(finalContent, FrontmatterOf(originalContent) \o <<"\n", "\n">>)

\* the history of an edit: docChanged transactions at this moment
EditObserved(h) ==
    [h EXCEPT !.sinceEdit = 0, !.fires = 0,
              !.burstReset = /\ DOMAIN timers # {}
                             /\ \/ h.burstReset
                                \/ \E t \in DOMAIN timers : timers[t] < DebounceMs]

\* sinceEdit: ms since the last edit (-1: none yet); fires: the runs of the debounce
\* callback since the last edit; burstReset: an edit of the current burst arrived
\* inside the window of the previous one; frontmatterKept: the last written
\* document kept the frontmatter; events: external modifications, image drops and resizes so far
NoHistory ==
    [sinceEdit |-> -1, fires |-> 0, burstReset |-> FALSE,
     frontmatterKept |-> TRUE, events |-> 0]

Init ==
    /\ file \in FileDocs
    /\ fileCache = MetadataOf(file)
    /\ bound = FALSE
    /\ editorData = <<>>
    /\ editors = <<>>
    /\ saveTimeout = 0
    /\ timers = <<>>
    /\ isUpdating = FALSE
    /\ saves = {}
    /\ refreshes = {}
    /\ modifyEvents = <<>>
    /\ fileChangeHandler = FALSE
    /\ notices = 0
    /\ hist = NoHistory
    /\ codec = <<>>
    /\ cm = <<>>
    /\ ui = Attached
    /\ plugin = Loaded

\* setState(state): the file is bound and renderView awaits parseMarkdown's read
setState ==
    /\ ~bound
    /\ bound' = TRUE
    /\ refreshes' = {[pc |-> "render"]}
    /\ UNCHANGED <<file, fileCache, editorData, editors, saveTimeout, timers,
                   isUpdating, saves, modifyEvents,
                   fileChangeHandler, notices, hist, codec, cm, ui, plugin>>

\* renderView(): the read completes, editorData is the parsed text and one editor
\* per section is created with doc = this.editorData[title] || ""
renderView ==
    /\ \E r \in refreshes : r.pc = "render"
    /\ refreshes' = {}
    /\ editorData' = parseMarkdownContent(file)
    /\ editors' = [t \in Titles |-> OrEmpty(parseMarkdownContent(file), t)]
    /\ UNCHANGED <<file, fileCache, bound, saveTimeout, timers, isUpdating, saves,
                   modifyEvents,
                   fileChangeHandler, notices, hist, codec, cm, ui, plugin>>

\* updateListener: the user changes the document of one section's editor
DocChanged(title, text) ==
    /\ title \in DOMAIN editors
    /\ text # editors[title]
    /\ editors' = [editors EXCEPT ![title] = text]
    /\ editorData' = SetKey(editorData, title, text)
    /\ debouncedSave
    /\ hist' = EditObserved(hist)
    /\ UNCHANGED <<file, fileCache, bound, isUpdating, saves, refreshes,
                   modifyEvents,
                   fileChangeHandler, notices, codec, cm, ui, plugin>>

\* the new size an image is dragged to: `${width}x${height}`
NewSize == <<"9", "x", "9">>

\* length of the match of  prefix(?:\|[^c]*)?close  at position i of text, 0 when
\* there is none; c is the first character of close
MatchLen(text, i, prefix, close) ==
    LET j == i + Len(prefix)
        At(k, w) == k + Len(w) - 1 <= Len(text) /\ SubSeq(text, k, k + Len(w) - 1) = w
    IN IF ~At(i, prefix) THEN 0
       ELSE IF At(j, close) THEN Len(prefix) + Len(close)
       ELSE IF j <= Len(text) /\ text[j] = "|"
       THEN LET stops == {k \in (j + 1)..Len(text) : text[k] = close[1]}
            IN IF stops = {} THEN 0
               ELSE LET k == CHOOSE m \in stops : \A n \in stops : m <= n
                    IN IF At(k, close) THEN k + Len(close) - i ELSE 0
       ELSE 0

\* text.replace(pattern, ...) with the g flag, from position i on: every match
\* becomes  prefix|WxH close
RECURSIVE ReplaceFrom(_, _, _, _, _)
ReplaceFrom(text, i, prefix, close, size) ==
    IF i > Len(text) THEN <<>>
    ELSE LET n == MatchLen(text, i, prefix, close)
         IN IF n > 0
            THEN prefix \o <<"|">> \o size \o close
                 \o ReplaceFrom(text, i + n, prefix, close, size)
            ELSE <<text[i]>> \o ReplaceFrom(text, i + 1, prefix, close, size)

HasMatch(text, prefix, close) ==
    \E i \in 1..Len(text) : MatchLen(text, i, prefix, close) > 0

\* internalImagePattern and markdownImagePattern of updateImageInMarkdown
InternalPrefix(imagePath) == <<"!", "[", "[">> \o imagePath
MarkdownPrefix(altText, imagePath) ==
    <<"!", "[">> \o altText \o <<"]", "(">> \o imagePath

\* wasUpdated of updateImageInMarkdown
WasUpdated(text, imagePath, altText) ==
    \/ HasMatch(text, InternalPrefix(imagePath), <<"]", "]">>)
    \/ HasMatch(text, MarkdownPrefix(altText, imagePath), <<")">>)

\* updatedText of updateImageInMarkdown
UpdatedText(text, imagePath, altText, size) ==
    ReplaceFrom(ReplaceFrom(text, 1, InternalPrefix(imagePath), <<"]", "]">>, size),
                1, MarkdownPrefix(altText, imagePath), <<")">>, size)

\* the image widget of section title is resized: updateImageSize dispatches
\* 'updateImageSize' on document, where every grid item's listener runs
\* updateImageInMarkdown on its own editor; each editor whose text was updated
\* dispatches the change, so that its updateListener runs
ImageResize(title, imagePath, altText) ==
    /\ hist.events < MaxEvents
    /\ title \in DOMAIN editors
    /\ WasUpdated(editors[title], imagePath, altText)
    /\ LET hit == {u \in DOMAIN editors : WasUpdated(editors[u], imagePath, altText)}
           new(u) == UpdatedText(editors[u], imagePath, altText, NewSize)
       IN /\ editors' = [u \in DOMAIN editors |->
                            IF u \in hit THEN new(u) ELSE editors[u]]
          /\ editorData' = [u \in (DOMAIN editorData) \cup hit |->
                               IF u \in hit THEN new(u) ELSE editorData[u]]
    /\ debouncedSave
    /\ hist' = [EditObserved(hist) EXCEPT !.events = @ + 1]
    /\ UNCHANGED <<file, fileCache, bound, isUpdating, saves, refreshes,
                   modifyEvents,
                   fileChangeHandler, notices, codec, cm, ui, plugin>>

\* handleImageDrop after the image file is created: the link is inserted at the
\* selection (updateListener runs), editorData is set and saveMarkdown is awaited
ImageDrop(title, pos) ==
    /\ hist.events < MaxEvents
    /\ title \in DOMAIN editors
    /\ pos \in 0..Len(editors[title])
    /\ LET doc == editors[title]
           new == SubSeq(doc, 1, pos) \o <<"\n">> \o ImageLink \o <<"\n">>
                  \o SubSeq(doc, pos + 1, Len(doc))
       IN /\ editors' = [editors EXCEPT ![title] = new]
          /\ editorData' = SetKey(editorData, title, new)
          /\ saveMarkdown(SetKey(editorData, title, new))
    /\ debouncedSave
    /\ hist' = [EditObserved(hist) EXCEPT !.events = @ + 1]
    /\ UNCHANGED <<file, fileCache, bound, refreshes, modifyEvents,
                   fileChangeHandler, notices, codec, cm, ui, plugin>>

\* time passes: by TickMs, or less when a timer is due earlier
Tick ==
    /\ DOMAIN timers # {}
    /\ \A h \in DOMAIN timers : timers[h] > 0
    /\ LET next == CHOOSE h \in DOMAIN timers : \A g \in DOMAIN timers : timers[h] <= timers[g]
           d == Min(TickMs, timers[next])
       IN /\ timers' = [h \in DOMAIN timers |-> timers[h] - d]
          /\ hist' = [hist EXCEPT !.sinceEdit = @ + d]
    /\ UNCHANGED <<file, fileCache, bound, editorData, editors, saveTimeout,
                   isUpdating, saves, refreshes, modifyEvents,
                   fileChangeHandler, notices, codec, cm, ui, plugin>>

\* the callback of debouncedSave's timer: saveMarkdown() is called, not awaited, and
\* saveTimeout is set to null
TimerFire(h) ==
    /\ h \in DOMAIN timers
    /\ timers[h] = 0
    /\ timers' = Without(timers, h)
    /\ saveMarkdown(editorData)
    /\ saveTimeout' = 0
    /\ hist' = [hist EXCEPT !.fires = @ + 1]
    /\ UNCHANGED <<file, fileCache, bound, editorData, editors, refreshes,
                   modifyEvents,
                   fileChangeHandler, notices, codec, cm, ui, plugin>>

\* saveMarkdown() after `await this.app.vault.read(this.file)`: finalContent is
\* computed and the write is issued when the text differs, else the finally block runs
SaveReadDone(s) ==
    /\ s \in saves
    /\ s.pc = "read"
    /\ LET finalContent == FinalContent(s.newSectionContent, s.cache, file)
       IN IF NeedsWrite(file, finalContent)
          THEN /\ saves' = (saves \ {s}) \cup
                     {[id |-> s.id, pc |-> "write", originalContent |-> file,
                       finalContent |-> finalContent]}
               /\ UNCHANGED isUpdating
          ELSE /\ saves' = saves \ {s}
               /\ isUpdating' = FALSE
    /\ UNCHANGED <<file, fileCache, bound, editorData, editors, saveTimeout, timers,
                   refreshes, modifyEvents,
                   fileChangeHandler, notices, hist, codec, cm, ui, plugin>>

\* saveMarkdown() after `await this.app.vault.modify(this.file, finalContent)`: the
\* file holds finalContent and the finally block resets the flag
SaveWriteDone(s) ==
    /\ s \in saves
    /\ s.pc = "write"
    /\ file' = s.finalContent
    /\ saves' = saves \ {s}
    /\ isUpdating' = FALSE
    /\ hist' = [hist EXCEPT !.frontmatterKept =
                                FrontmatterKept(s.originalContent, s.finalContent)]
    /\ UNCHANGED <<fileCache, bound, editorData, editors, saveTimeout, timers,
                   refreshes, modifyEvents,
                   fileChangeHandler, notices, codec, cm, ui, plugin>>

\* the metadata collaborator re-indexes the file
MetadataReindex ==
    /\ fileCache # MetadataOf(file)
    /\ fileCache' = MetadataOf(file)
    /\ UNCHANGED <<file, bound, editorData, editors, saveTimeout, timers, isUpdating,
                   saves, refreshes, modifyEvents,
                   fileChangeHandler, notices, hist, codec, cm, ui, plugin>>

\* another program writes the bound file
ExternalModify(d) ==
    /\ hist.events < MaxEvents
    /\ d # file
    /\ file' = d
    /\ hist' = [hist EXCEPT !.events = @ + 1]
    /\ UNCHANGED <<fileCache, bound, editorData, editors, saveTimeout, timers,
                   isUpdating, saves, refreshes, modifyEvents,
                   fileChangeHandler, notices, codec, cm, ui, plugin>>

Next ==
    \/ setState
    \/ renderView
    \/ \E t \in EditTitles, x \in EditTexts : DocChanged(t, x)
    \/ Tick
    \/ \E h \in DOMAIN timers : TimerFire(h)
    \/ \E s \in saves : SaveReadDone(s)
    \/ \E s \in saves : SaveWriteDone(s)
    \/ MetadataReindex
    \/ \E d \in FileDocs : ExternalModify(d)
    \/ \E t \in Titles : ImageResize(t, ImagePath, <<>>)
    \/ \E t \in EditTitles : ImageDrop(t, Len(OrEmpty(editors, t)))

Spec == Init /\ [][Next]_vars

-----------------------------------------------------------------------------
(* Properties of the CodeMirror view *)

\* C6: every document a save writes begins with the frontmatter block of the text
\* that save read, character for character, followed by a blank line; also when
\* the cached frontmatter span was computed from an earlier text of the file.
C6_FrontmatterByteForByte == hist.frontmatterKept

UserActionOn(t) ==
    \/ \E x \in EditTexts : DocChanged(t, x)
    \/ ImageResize(t, ImagePath, <<>>)
    \/ ImageDrop(t, Len(OrEmpty(editors, t)))

\* C10: a user action on the editor of one section leaves the text and the
\* editorData entry of every other section unchanged.
C10_SectionIsolation ==
    [][\A t \in Titles : UserActionOn(t) =>
          \A u \in Titles \ {t} :
              /\ OrEmpty(editors', u) = OrEmpty(editors, u)
              /\ OrEmpty(editorData', u) = OrEmpty(editorData, u)]_vars

-----------------------------------------------------------------------------
(* The textarea SurveyNoteView, src/view.ts:1-389 *)

\* the titles of SECTIONS, one token per character: "背景目的", "まとめ", "内容1",
\* "内容1の補足", "内容2", "内容2の補足"
BACKGROUND_JA == <<"hai", "kei", "moku", "teki">>
SUMMARY_JA == <<"ma", "to", "me">>
CONTENT1_JA == <<"nai", "you", "1">>
CONTENT1_SUPPLEMENT == <<"nai", "you", "1", "no", "ho", "soku">>
CONTENT2_JA == <<"nai", "you", "2">>
CONTENT2_SUPPLEMENT == <<"nai", "you", "2", "no", "ho", "soku">>

\* `for (const key in SECTIONS)` of parseMarkdownContent and sectionOrder of
\* saveMarkdown: the order of declaration
TextareaSectionOrder ==
    <<BACKGROUND_JA, SUMMARY_JA, CONTENT1_JA, CONTENT1_SUPPLEMENT,
      CONTENT2_JA, CONTENT2_SUPPLEMENT>>

TextareaTitles == {TextareaSectionOrder[i] : i \in 1..Len(TextareaSectionOrder)}

\* the heading marker of the textarea view: "## "
TextareaMarker == <<"#", "#", " ">>

\* parseMarkdownContent(content) of the textarea view
TextareaParse(content) == ParseWith(content, TextareaMarker, TextareaSectionOrder)

\* newSectionContent of the textarea saveMarkdown over order[i..]: every section
\* whose editorData entry is not undefined is emitted
RECURSIVE TextareaSectionContent(_, _, _)
TextareaSectionContent(data, order, i) ==
    IF i > Len(order) THEN <<>>
    ELSE LET t == order[i]
         IN (IF t \in DOMAIN data
             THEN TextareaMarker \o t \o <<"\n">> \o Trim(data[t]) \o <<"\n", "\n">>
             ELSE <<>>)
            \o TextareaSectionContent(data, order, i + 1)

\* debounce window of the textarea debouncedSave, in milliseconds
TextareaDebounceMs == 500

\* saveMarkdown invocations that may be suspended at once
MaxSaves == 2

\* timers that may be armed at once
MaxTimers == 1

\* external modifications and image drops of a run of the textarea view
MaxTextareaEvents == 1

\* sections the modelled user works in, and the text typed
TextareaEditTitles == {BACKGROUND_JA}
TextareaEditTexts == { <<"b">> }

\* texts the bound file holds, initially or after an external modification
TextareaFileDocs ==
    { JoinLines(<<TextareaMarker \o BACKGROUND_JA, <<"a">>>>),
      JoinLines(<<<<"x">>, TextareaMarker \o BACKGROUND_JA, <<"a">>>>) }

\* new Notice(...): one more Notice is shown
Notice(n) == 1 - n

\* ext: what became of the last external modification: "none", "written" (its
\* notification is not yet handled), "ignored" (handled with no notice and no
\* reload), "noticed", "loaded"; events: external modifications and drops so far
TextareaNoHistory == [events |-> 0, ext |-> "none"]

InitTextarea ==
    /\ file \in TextareaFileDocs
    /\ fileCache = MetadataOf(file)
    /\ bound = FALSE
    /\ editorData = <<>>
    /\ editors = <<>>
    /\ saveTimeout = 0
    /\ timers = <<>>
    /\ isUpdating = FALSE
    /\ saves = {}
    /\ refreshes = {}
    /\ modifyEvents = <<>>
    /\ fileChangeHandler = FALSE
    /\ notices = 0
    /\ hist = TextareaNoHistory
    /\ codec = <<>>
    /\ cm = <<>>
    /\ ui = Attached
    /\ plugin = Loaded

\* setState(state): monitoring is removed, the file is bound and render() awaits
\* parseMarkdown's read
TextareaSetState ==
    /\ ~bound
    /\ bound' = TRUE
    /\ fileChangeHandler' = FALSE
    /\ refreshes' = refreshes \cup {[pc |-> "render", from |-> "setState"]}
    /\ UNCHANGED <<file, fileCache, editorData, editors, saveTimeout, timers,
                   isUpdating, saves, modifyEvents, notices, hist, codec, cm, ui, plugin>>

\* render() after parseMarkdown's read: editorData is the parsed text and every
\* textarea is created anew with value = this.editorData[title] || ""; setState
\* then sets up the monitoring
TextareaRender(r) ==
    /\ r \in refreshes
    /\ r.pc = "render"
    /\ refreshes' = refreshes \ {r}
    /\ editorData' = TextareaParse(file)
    /\ editors' = [t \in TextareaTitles |-> OrEmpty(TextareaParse(file), t)]
    /\ fileChangeHandler' = (fileChangeHandler \/ r.from = "setState")
    /\ hist' = [hist EXCEPT !.ext = IF @ = "none" THEN "none" ELSE "loaded"]
    /\ UNCHANGED <<file, fileCache, bound, saveTimeout, timers, isUpdating, saves,
                   modifyEvents, notices, codec, cm, ui, plugin>>

\* debouncedSave() of the textarea view
TextareaDebouncedSave ==
    LET cleared == ClearTimeout(timers, saveTimeout)
        h == FreshHandle(cleared)
    IN /\ timers' = SetKey(cleared, h, TextareaDebounceMs)
       /\ saveTimeout' = h

\* saveMarkdown() of the textarea view up to its first await, called with
\* this.editorData = data; thenClear: the caller is the debounce callback, which
\* sets saveTimeout to null once the save has settled
TextareaSaveMarkdown(data, thenClear) ==
    IF ~bound
    THEN UNCHANGED <<isUpdating, saves>>
    ELSE /\ isUpdating' = TRUE
         /\ saves' = saves \cup
              {[id |-> FreshSaveId, pc |-> "read", thenClear |-> thenClear,
                newSectionContent |-> TextareaSectionContent(data, TextareaSectionOrder, 1),
                cache |-> fileCache]}

\* textarea.oninput
oninput(title, text) ==
    /\ title \in DOMAIN editors
    /\ text # editors[title]
    /\ Cardinality(DOMAIN ClearTimeout(timers, saveTimeout)) < MaxTimers
    /\ editors' = [editors EXCEPT ![title] = text]
    /\ editorData' = SetKey(editorData, title, text)
    /\ TextareaDebouncedSave
    /\ UNCHANGED <<file, fileCache, bound, isUpdating, saves, refreshes, modifyEvents,
                   fileChangeHandler, notices, hist, codec, cm, ui, plugin>>

\* textarea.onblur: saveMarkdown() is called, not awaited
onblur(title) ==
    /\ title \in DOMAIN editors
    /\ Cardinality(saves) < MaxSaves
    /\ editorData' = SetKey(editorData, title, editors[title])
    /\ TextareaSaveMarkdown(SetKey(editorData, title, editors[title]), FALSE)
    /\ UNCHANGED <<file, fileCache, bound, editors, saveTimeout, timers, refreshes,
                   modifyEvents, fileChangeHandler, notices, hist, codec, cm, ui, plugin>>

\* time passes until the next timer is due, by TickMs at most
TextareaTick ==
    /\ DOMAIN timers # {}
    /\ \A h \in DOMAIN timers : timers[h] > 0
    /\ LET next == CHOOSE h \in DOMAIN timers : \A g \in DOMAIN timers : timers[h] <= timers[g]
           d == Min(TickMs, timers[next])
       IN timers' = [h \in DOMAIN timers |-> timers[h] - d]
    /\ UNCHANGED <<file, fileCache, bound, editorData, editors, saveTimeout, isUpdating,
                   saves, refreshes, modifyEvents, fileChangeHandler, notices, hist, codec, cm, ui, plugin>>

\* the callback of the textarea debouncedSave's timer: `await this.saveMarkdown()`;
\* saveTimeout is set to null when that save has settled
TextareaTimerFire(h) ==
    /\ h \in DOMAIN timers
    /\ timers[h] = 0
    /\ Cardinality(saves) < MaxSaves
    /\ timers' = Without(timers, h)
    /\ TextareaSaveMarkdown(editorData, TRUE)
    /\ UNCHANGED <<file, fileCache, bound, editorData, editors, saveTimeout, refreshes,
                   modifyEvents, fileChangeHandler, notices, hist, codec, cm, ui, plugin>>

\* handleImageDrop of the textarea view after the image file is created: the link is
\* inserted at the cursor, editorData is set and saveMarkdown is awaited
TextareaImageDrop(title, pos) ==
    /\ hist.events < MaxTextareaEvents
    /\ title \in DOMAIN editors
    /\ pos \in 0..Len(editors[title])
    /\ Cardinality(saves) < MaxSaves
    /\ LET currentValue == editors[title]
           newValue == SubSeq(currentValue, 1, pos) \o <<"\n">> \o ImageLink \o <<"\n">>
                       \o SubSeq(currentValue, pos + 1, Len(currentValue))
       IN /\ editors' = [editors EXCEPT ![title] = newValue]
          /\ editorData' = SetKey(editorData, title, newValue)
          /\ TextareaSaveMarkdown(SetKey(editorData, title, newValue), FALSE)
    /\ hist' = [hist EXCEPT !.events = @ + 1]
    /\ UNCHANGED <<file, fileCache, bound, saveTimeout, timers, refreshes, modifyEvents,
                   fileChangeHandler, notices, codec, cm, ui, plugin>>

\* the textarea saveMarkdown() after `await this.app.vault.read(this.file)`:
\* finalContent is computed and vault.modify is called
TextareaSaveReadDone(s) ==
    /\ s \in saves
    /\ s.pc = "read"
    /\ saves' = (saves \ {s}) \cup
          {[id |-> s.id, pc |-> "write", thenClear |-> s.thenClear,
            originalContent |-> file,
            finalContent |-> FinalContent(s.newSectionContent, s.cache, file)]}
    /\ UNCHANGED <<file, fileCache, bound, editorData, editors, saveTimeout, timers,
                   isUpdating, refreshes, modifyEvents, fileChangeHandler, notices,
                   hist, codec, cm, ui, plugin>>

\* `if (!this.isUpdating) this.refreshView()` of the fileChangeHandler
HandlerRefreshes == fileChangeHandler /\ ~isUpdating

\* refreshView() up to its first await: with a save pending the Notice is shown,
\* else the read is issued
RefreshViewNotice(n) ==
    IF saveTimeout # 0 THEN Notice(n) ELSE n

RefreshViewReads(rs) ==
    IF saveTimeout # 0 THEN rs ELSE rs \cup {[pc |-> "read", from |-> "refresh"]}

\* the textarea saveMarkdown() when vault.modify completes: the file holds
\* finalContent, the vault raises 'modify' for this write, the finally block resets
\* the flag, and the debounce callback awaiting this save sets saveTimeout to null
TextareaSaveWriteDone(s) ==
    /\ s \in saves
    /\ s.pc = "write"
    /\ file' = s.finalContent
    /\ saves' = saves \ {s}
    /\ IF HandlerRefreshes
       THEN /\ notices' = RefreshViewNotice(notices)
            /\ refreshes' = RefreshViewReads(refreshes)
       ELSE UNCHANGED <<notices, refreshes>>
    /\ isUpdating' = FALSE
    /\ saveTimeout' = IF s.thenClear THEN 0 ELSE saveTimeout
    /\ hist' = [hist EXCEPT !.ext = "none"]
    /\ UNCHANGED <<fileCache, bound, editorData, editors, timers, modifyEvents,
                   fileChangeHandler, codec, cm, ui, plugin>>

\* another program writes the bound file; the vault will raise 'modify'
TextareaExternalModify(d) ==
    /\ hist.events < MaxTextareaEvents
    /\ d # file
    /\ file' = d
    /\ modifyEvents' = Append(modifyEvents, "modify")
    /\ hist' = [hist EXCEPT !.events = @ + 1, !.ext = "written"]
    /\ UNCHANGED <<fileCache, bound, editorData, editors, saveTimeout, timers,
                   isUpdating, saves, refreshes, fileChangeHandler, notices, codec, cm, ui, plugin>>

\* the vault's 'modify' callback for an external modification runs the
\* fileChangeHandler, if one is set
ModifyNotified ==
    /\ modifyEvents # <<>>
    /\ modifyEvents' = Tail(modifyEvents)
    /\ IF HandlerRefreshes
       THEN /\ notices' = RefreshViewNotice(notices)
            /\ refreshes' = RefreshViewReads(refreshes)
            /\ hist' = [hist EXCEPT !.ext = IF saveTimeout # 0 THEN "noticed" ELSE @]
       ELSE /\ UNCHANGED <<notices, refreshes>>
            /\ hist' = [hist EXCEPT !.ext = IF fileChangeHandler THEN "ignored" ELSE @]
    /\ UNCHANGED <<file, fileCache, bound, editorData, editors, saveTimeout, timers,
                   isUpdating, saves, fileChangeHandler, codec, cm, ui, plugin>>

\* hasLocalChanges of refreshView, for the text the read returned
HasLocalChanges(data, currentContent) ==
    \E key \in DOMAIN data : data[key] # OrEmpty(TextareaParse(currentContent), key)

\* refreshView() after its read: with local changes the Notice is shown, else
\* render() is called and awaits parseMarkdown's read
RefreshReadDone(r) ==
    /\ r \in refreshes
    /\ r.pc = "read"
    /\ IF HasLocalChanges(editorData, file)
       THEN /\ notices' = Notice(notices)
            /\ refreshes' = refreshes \ {r}
            /\ hist' = [hist EXCEPT !.ext = IF @ = "none" THEN "none" ELSE "noticed"]
       ELSE /\ refreshes' = (refreshes \ {r}) \cup {[pc |-> "render", from |-> "refresh"]}
            /\ UNCHANGED <<notices, hist>>
    /\ UNCHANGED <<file, fileCache, bound, editorData, editors, saveTimeout, timers,
                   isUpdating, saves, modifyEvents, fileChangeHandler, codec, cm, ui, plugin>>

NextTextarea ==
    \/ TextareaSetState
    \/ \E r \in refreshes : TextareaRender(r)
    \/ \E t \in TextareaEditTitles, x \in TextareaEditTexts : oninput(t, x)
    \/ \E t \in TextareaEditTitles : onblur(t)
    \/ TextareaTick
    \/ \E h \in DOMAIN timers : TextareaTimerFire(h)
    \/ \E t \in TextareaEditTitles : TextareaImageDrop(t, Len(OrEmpty(editors, t)))
    \/ \E s \in saves : TextareaSaveReadDone(s)
    \/ \E s \in saves : TextareaSaveWriteDone(s)
    \/ \E d \in TextareaFileDocs : TextareaExternalModify(d)
    \/ ModifyNotified
    \/ \E r \in refreshes : RefreshReadDone(r)

SpecTextarea == InitTextarea /\ [][NextTextarea]_vars

-----------------------------------------------------------------------------
(* Properties of the textarea view *)

\* C1: at any time at most one write to the bound file is in flight: a save
\* requested while another save of the view is running is dropped.
C1_AtMostOneWriteInFlight ==
    Cardinality({s \in saves : s.pc = "write"}) <= 1

\* C2: a notification of an external modification that is handled while a debounce
\* timer is armed or a save is in flight is ignored with a Notice: a Notice is
\* shown, no refresh is started and the in-memory contents stay as they are.
C2_ExternalIgnoredWithNotice ==
    [][(ModifyNotified /\ fileChangeHandler /\ (DOMAIN timers # {} \/ saves # {}))
          => /\ notices' # notices
             /\ refreshes' = refreshes
             /\ editorData' = editorData
             /\ editors' = editors]_vars

\* C3: whenever the handler of an external modification replaces the in-memory
\* contents by the text of the file, no in-memory section differs from that text,
\* whatever the user did while the handler awaited its reads.
C3_NoLocalEditDiscarded ==
    [][\A r \in refreshes :
          (r.from = "refresh" /\ TextareaRender(r)) => ~HasLocalChanges(editorData, file)]_vars

\* C4: neither side is overwritten silently: the handler of an external
\* modification leaves every in-memory section as it is, and no save overwrites an
\* externally written text whose notification was handled with no Notice.
C4_NeitherSideSilentlyOverwritten ==
    [][/\ \A r \in refreshes :
             (r.from = "refresh" /\ TextareaRender(r))
                 => \A key \in DOMAIN editorData : editorData'[key] = editorData[key]
       /\ \A s \in saves :
             (TextareaSaveWriteDone(s) /\ s.finalContent # file)
                 => hist.ext # "ignored"]_vars

\* C8: a save writes only when the document it computed differs from the text it
\* read, so that a second save with no edit in between writes nothing.
C8_WritesOnlyWhenDifferent ==
    \A s \in saves : s.pc = "write" => s.finalContent # s.originalContent

-----------------------------------------------------------------------------
(* The decoration scanner of the CodeMirror editor, createInternalLinkExtension, *)
(* src/view.ts:1145-1863. Offsets are 0-based as in the code: the character at  *)
(* offset i of text is text[i + 1].                                              *)

COLLAPSED_MARKER ==
    <<"<","!","-","-","C","O","L","L","A","P","S","E","D","-","-",">">>
HIDDEN_MARKER == <<"<","!","-","-","H","I","D","D","E","N","-","-",">">>

\* text has w at offset i
HasAt(text, i, w) == i + Len(w) <= Len(text) /\ SubSeq(text, i + 1, i + Len(w)) = w

\* s.includes(w)
Includes(s, w) == \E i \in 0..Len(s) : HasAt(s, i, w)

\* the least offset k >= j whose character is stop, with at least min characters
\* in between; -1 when there is none: the greedy negated class [^stop]+ or [^stop]*
\* followed by stop
StopAt(text, j, stop, min) ==
    LET ks == {k \in j..(Len(text) - 1) : text[k + 1] = stop}
    IN IF ks = {} THEN -1
       ELSE LET k == CHOOSE m \in ks : \A n \in ks : m <= n
            IN IF k - j >= min THEN k ELSE -1

\* length of the longest run of characters of the class cls from offset j on
RECURSIVE RunLen(_, _, _)
RunLen(text, j, cls) ==
    IF j < Len(text) /\ text[j + 1] \in cls THEN 1 + RunLen(text, j + 1, cls) ELSE 0

\* length of the match of  open([^\]]+)\]\]  at offset i, 0 when there is none
WikiLen(text, i, open) ==
    IF ~HasAt(text, i, open) THEN 0
    ELSE LET k == StopAt(text, i + Len(open), "]", 1)
         IN IF k >= 0 /\ HasAt(text, k, <<"]", "]">>) THEN k + 2 - i ELSE 0

\* length of the match of  open([^\]]{min,})\]\(([^)]+)\)  at offset i
LinkLen(text, i, open, min) ==
    IF ~HasAt(text, i, open) THEN 0
    ELSE LET k == StopAt(text, i + Len(open), "]", min)
         IN IF k < 0 \/ ~HasAt(text, k, <<"]", "(">>) THEN 0
            ELSE LET m == StopAt(text, k + 2, ")", 1)
                 IN IF m < 0 THEN 0 ELSE m + 1 - i

\* /\[\[([^\]]+)\]\]/
internalLinkRegex(text, i) == WikiLen(text, i, <<"[", "[">>)

\* /!\[\[([^\]]+)\]\]/
internalImageRegex(text, i) == WikiLen(text, i, <<"!", "[", "[">>)

\* /\[([^\]]+)\]\(([^)]+)\)/
markdownLinkRegex(text, i) == LinkLen(text, i, <<"[">>, 1)

\* /!\[([^\]]*)\]\(([^)]+)\)/
imageRegex(text, i) == LinkLen(text, i, <<"!", "[">>, 0)

\* the backquote character (a token, since the character cannot be written in a string)
Backtick == "BACKTICK"

Fence == <<Backtick, Backtick, Backtick>>

\* /```(\w*)\n?([\s\S]*?)\n?```/: from a fence to the first fence after it
codeBlockRegex(text, i) ==
    IF ~HasAt(text, i, Fence) THEN 0
    ELSE LET ks == {k \in (i + 3)..Len(text) : HasAt(text, k, Fence)}
         IN IF ks = {} THEN 0
            ELSE (CHOOSE m \in ks : \A n \in ks : m <= n) + 3 - i

\* /(https?:\/\/[^\s]+)/
urlRegex(text, i) ==
    LET http == <<"h", "t", "t", "p">>
        sep == <<":", "/", "/">>
        p == IF HasAt(text, i, http \o <<"s">> \o sep) THEN 8
             ELSE IF HasAt(text, i, http \o sep) THEN 7 ELSE 0
        n == RunLen(text, i + p, {text[k] : k \in 1..Len(text)} \ {" ", "\n", "\t", "\r"})
    IN IF p > 0 /\ n > 0 THEN p + n ELSE 0

\* ^ with the m flag: offset i starts a line
LineStartAt(text, i) == i = 0 \/ text[i] = "\n"

\* \[[ x]\]  followed by a space, at offset j
CheckboxAt(text, j) ==
    HasAt(text, j, <<"[", " ", "]", " ">>) \/ HasAt(text, j, <<"[", "x", "]", " ">>)

\* /^(\s*)([-*])( +)(?!\[[ x]\] )/m at offset i: \s* also runs over line breaks;
\* when all the spaces are followed by a checkbox the match gives one space back
listItemRegex(text, i) ==
    LET w == RunLen(text, i, {" ", "\n", "\t", "\r"})
        s == RunLen(text, i + w + 1, {" "})
    IN IF ~LineStartAt(text, i) THEN 0
       ELSE IF ~(i + w < Len(text) /\ text[i + w + 1] \in {"-", "*"}) THEN 0
       ELSE IF s = 0 THEN 0
       ELSE IF ~CheckboxAt(text, i + w + 1 + s) THEN w + 1 + s
       ELSE IF s >= 2 THEN w + s
       ELSE 0

\* /^(\s*)- (\[[ x]\]) /m at offset i
checkboxRegex(text, i) ==
    LET w == RunLen(text, i, {" ", "\n", "\t", "\r"})
    IN IF LineStartAt(text, i) /\ HasAt(text, i + w, <<"-", " ">>)
          /\ CheckboxAt(text, i + w + 2)
       THEN w + 6 ELSE 0

\* /<!--(COLLAPSED|HIDDEN)-->/
collapseMarkerRegex(text, i) ==
    IF HasAt(text, i, COLLAPSED_MARKER) THEN Len(COLLAPSED_MARKER)
    ELSE IF HasAt(text, i, HIDDEN_MARKER) THEN Len(HIDDEN_MARKER)
    ELSE 0

\* while ((match = re.exec(text)) !== null) with the g flag, from lastIndex i:
\* the matches in order, each as [from, to]; re[j] is the length of the match of
\* the regular expression at offset j of text
RECURSIVE ExecAll(_, _, _)
ExecAll(re, text, i) ==
    IF i >= Len(text) THEN <<>>
    ELSE IF re[i] > 0
         THEN <<[from |-> i, to |-> i + re[i]]>> \o ExecAll(re, text, i + re[i])
         ELSE ExecAll(re, text, i + 1)

\* line.replace(/<!--(COLLAPSED|HIDDEN)-->/g, '')
RECURSIVE RemoveMarkers(_)
RemoveMarkers(s) ==
    IF s = <<>> THEN <<>>
    ELSE LET n == collapseMarkerRegex(s, 0)
         IN IF n > 0 THEN RemoveMarkers(SubSeq(s, n + 1, Len(s)))
            ELSE <<Head(s)>> \o RemoveMarkers(Tail(s))

\* offset of the first character of line i (0-based) of lines
RECURSIVE LineStart(_, _)
LineStart(lines, i) ==
    IF i = 0 THEN 0 ELSE LineStart(lines, i - 1) + Len(lines[i]) + 1

\* the line item i of allListItems is hidden under: the loop j = i - 1 .. 0 of
\* parseListStructure's second pass, entered at j
RECURSIVE ShouldHideFrom(_, _, _)
ShouldHideFrom(allListItems, i, j) ==
    IF j < 1 THEN FALSE
    ELSE LET potentialParent == allListItems[j]
             currentItem == allListItems[i]
         IN IF potentialParent.indentLevel < currentItem.indentLevel
            THEN IF potentialParent.isCollapsed THEN TRUE
                 ELSE IF potentialParent.indentLevel <= currentItem.indentLevel - 2
                 THEN FALSE
                 ELSE ShouldHideFrom(allListItems, i, j - 1)
            ELSE ShouldHideFrom(allListItems, i, j - 1)

\* parseListStructure(text): line index -> [hasChildren, isCollapsed, shouldHide],
\* defined on the list and checkbox lines
parseListStructure(text) ==
    LET lines == SplitLines(text)
        IsItem(i) == \/ listItemRegex(RemoveMarkers(lines[i + 1]), 0) > 0
                     \/ checkboxRegex(RemoveMarkers(lines[i + 1]), 0) > 0
        Item(i) == [lineIndex |-> i,
                    indentLevel |-> RunLen(RemoveMarkers(lines[i + 1]), 0,
                                           {" ", "\n", "\t", "\r"}),
                    isCollapsed |-> Includes(lines[i + 1], COLLAPSED_MARKER)]
        indices == SelectSeq([k \in 1..Len(lines) |-> k - 1], IsItem)
        allListItems == [k \in 1..Len(indices) |-> Item(indices[k])]
        Info(k) == [hasChildren |-> /\ k < Len(allListItems)
                                    /\ allListItems[k + 1].indentLevel
                                         > allListItems[k].indentLevel,
                    isCollapsed |-> allListItems[k].isCollapsed,
                    shouldHide |-> ShouldHideFrom(allListItems, k, k - 1)]
    IN [i \in {indices[k] : k \in 1..Len(indices)} |->
            Info(CHOOSE k \in 1..Len(indices) : indices[k] = i)]

\* listStructure.get(lineNumber) || { hasChildren: false, isCollapsed: false,
\* shouldHide: false }
ListInfo(listStructure, lineNumber) ==
    IF lineNumber \in DOMAIN listStructure THEN listStructure[lineNumber]
    ELSE [hasChildren |-> FALSE, isCollapsed |-> FALSE, shouldHide |-> FALSE]

\* cursorInRange of scanForLinks
CursorInRange(selection, from, to) ==
    \/ selection.from >= from /\ selection.from <= to
    \/ selection.to >= from /\ selection.to <= to
    \/ selection.from <= from /\ selection.to >= to

\* the overlap test of scanForLinks (overlapsWithHidden, overlapsWithSpecial)
OverlapsSome(from, to, ranges) ==
    \E k \in 1..Len(ranges) :
        \/ from >= ranges[k].from /\ from < ranges[k].to
        \/ to > ranges[k].from /\ to <= ranges[k].to
        \/ from <= ranges[k].from /\ to >= ranges[k].to

\* "Find which line this match corresponds to": the first line whose span,
\* line break included, holds from; line 0 when there is none
LineNumberOf(lines, from) ==
    LET hits == {i \in 0..(Len(lines) - 1) :
                    /\ from >= LineStart(lines, i)
                    /\ from <= LineStart(lines, i) + Len(lines[i + 1])}
    IN IF hits = {} THEN 0 ELSE CHOOSE i \in hits : \A j \in hits : i <= j

\* a decoration range: Decoration.replace (replace = TRUE) or Decoration.mark over
\* [from, to), with the parameters its widget was constructed with
Range(kind, from, to, replace) ==
    [kind |-> kind, from |-> from, to |-> to, replace |-> replace,
     lineNumber |-> 0, hasChildren |-> FALSE, isCollapsed |-> FALSE,
     isChecked |-> FALSE]

\* newDecorations.sort((a, b) => a.from - b.from): a stable sort, so the range at
\* place r is the one with r - 1 ranges before it, those of a smaller from and
\* those of the same from pushed earlier
SortByFrom(decorations) ==
    LET Sorted(ds) ==
            LET Before(j, k) == \/ ds[j].from < ds[k].from
                                \/ ds[j].from = ds[k].from /\ j < k
                Place(k) == Cardinality({j \in 1..Len(ds) : Before(j, k)}) + 1
            IN [r \in 1..Len(ds) |-> ds[CHOOSE k \in 1..Len(ds) : Place(k) = r]]
    IN CHOOSE s \in {Sorted(ds) : ds \in {decorations}} : TRUE

\* scanForLinks(text, selection, collapseStates): the decorations, sorted by from.
\* The loops of the function are the operators of the LET, in the order of the
\* code; each takes what the code has computed before it.
scanForLinks(text, selection, collapseStates) ==
    LET \* the matches of a regular expression in s, regex(s, j) being the length
        \* of its match at offset j
        Matches(regex(_, _), s) ==
            ExecAll([j \in 0..Len(s) |-> regex(s, j)], s, 0)
        \* hidden lines due to collapsed parents
        Hidden(lines, listStructure) ==
            LET IsHidden(i) == ListInfo(listStructure, i).shouldHide
                HiddenRange(i) ==
                    LET hideStart == LineStart(lines, i)
                        lineEnd == hideStart + Len(lines[i + 1])
                    IN Range("hiddenLine", hideStart,
                             IF i < Len(lines) - 1 THEN lineEnd + 1 ELSE lineEnd, TRUE)
                hiddenIdx == SelectSeq([k \in 1..Len(lines) |-> k - 1], IsHidden)
            IN [k \in 1..Len(hiddenIdx) |-> HiddenRange(hiddenIdx[k])]
        \* code blocks
        CodeBlocks(codeBlockRanges) ==
            LET CodeBlock(k) ==
                    LET m == codeBlockRanges[k]
                        codeBlockIndex == k - 1
                    IN IF CursorInRange(selection, m.from, m.to)
                       THEN Range("codeBlockEditing", m.from, m.to, FALSE)
                       ELSE [Range("codeBlock", m.from, m.to, TRUE) EXCEPT
                                !.isCollapsed =
                                    IF codeBlockIndex \in DOMAIN collapseStates
                                    THEN collapseStates[codeBlockIndex]
                                    ELSE TRUE]
            IN [k \in 1..Len(codeBlockRanges) |-> CodeBlock(k)]
        \* collapse state markers
        Markers(markerMatches) ==
            [k \in 1..Len(markerMatches) |->
                Range("collapseMarker", markerMatches[k].from, markerMatches[k].to,
                      TRUE)]
        \* list items
        ListBullets(lines, listStructure, hiddenLineRanges, listItemRanges) ==
            LET ListItemShown(m) ==
                    /\ ~ListInfo(listStructure, LineNumberOf(lines, m.from)).shouldHide
                    /\ ~OverlapsSome(m.from, m.to, hiddenLineRanges)
                ListBullet(m) ==
                    LET lineNumber == LineNumberOf(lines, m.from)
                        listInfo == ListInfo(listStructure, lineNumber)
                    IN [Range("listBullet", m.from, m.to, TRUE) EXCEPT
                           !.lineNumber = lineNumber,
                           !.hasChildren = listInfo.hasChildren,
                           !.isCollapsed = listInfo.isCollapsed]
                shownItems == SelectSeq(listItemRanges, ListItemShown)
            IN [k \in 1..Len(shownItems) |-> ListBullet(shownItems[k])]
        \* checkboxes
        Checkboxes(lines, listStructure, hiddenLineRanges, checkboxRanges) ==
            LET BoxShown(m) == ~OverlapsSome(m.from, m.to, hiddenLineRanges)
                Checkbox(m) ==
                    LET lineNumber == LineNumberOf(lines, m.from)
                        listInfo == ListInfo(listStructure, lineNumber)
                    IN [Range("checkbox", m.from, m.to, TRUE) EXCEPT
                           !.lineNumber = lineNumber,
                           !.hasChildren = listInfo.hasChildren,
                           !.isCollapsed = listInfo.isCollapsed,
                           !.isChecked = text[m.to - 2] = "x"]
                shownBoxes == SelectSeq(checkboxRanges, BoxShown)
            IN [k \in 1..Len(shownBoxes) |-> Checkbox(shownBoxes[k])]
        \* lines with more than one image (processedRanges)
        MultiImages(lines) ==
            LET IsMultiImage(i) ==
                    Len(Matches(internalImageRegex, lines[i + 1]))
                      + Len(Matches(imageRegex, lines[i + 1])) > 1
                MultiImage(i) ==
                    LET imageLineStart == LineStart(lines, i)
                        lineEnd == imageLineStart + Len(lines[i + 1])
                    IN IF CursorInRange(selection, imageLineStart, lineEnd)
                       THEN Range("imageEditing", imageLineStart, lineEnd, FALSE)
                       ELSE Range("multiImage", imageLineStart, lineEnd, TRUE)
                multiIdx == SelectSeq([k \in 1..Len(lines) |-> k - 1], IsMultiImage)
            IN [k \in 1..Len(multiIdx) |-> MultiImage(multiIdx[k])]
        \* internal images and markdown images outside the processed lines
        ImageRanges(processedRanges) ==
            LET NotProcessed(m) ==
                    ~\E k \in 1..Len(processedRanges) :
                        /\ m.from >= processedRanges[k].from
                        /\ m.to <= processedRanges[k].to
            IN SelectSeq(Matches(internalImageRegex, text), NotProcessed)
                 \o SelectSeq(Matches(imageRegex, text), NotProcessed)
        Images(imageRanges) ==
            LET Image(m) ==
                    IF CursorInRange(selection, m.from, m.to)
                    THEN Range("imageEditing", m.from, m.to, FALSE)
                    ELSE Range("image", m.from, m.to, TRUE)
            IN [k \in 1..Len(imageRanges) |-> Image(imageRanges[k])]
        \* internal links outside the images, code blocks, list items and checkboxes
        InternalLinks(special) ==
            LET NotSpecial(m) == ~OverlapsSome(m.from, m.to, special)
                internalLinkRanges ==
                    SelectSeq(Matches(internalLinkRegex, text), NotSpecial)
            IN [k \in 1..Len(internalLinkRanges) |->
                   Range("internalLinkMark", internalLinkRanges[k].from,
                         internalLinkRanges[k].to, FALSE)]
        \* markdown links
        MarkdownLinks(markdownLinkRanges) ==
            LET MarkdownLink(m) ==
                    IF CursorInRange(selection, m.from, m.to)
                    THEN Range("markdownLinkEditing", m.from, m.to, FALSE)
                    ELSE Range("markdownLink", m.from, m.to, TRUE)
            IN [k \in 1..Len(markdownLinkRanges) |->
                   MarkdownLink(markdownLinkRanges[k])]
        \* plain URLs outside excludedPositions
        Urls(excluded) ==
            LET NotExcluded(m) ==
                    ~\E k \in 1..Len(excluded) :
                        m.from >= excluded[k].from /\ m.from < excluded[k].to
                urlRanges == SelectSeq(Matches(urlRegex, text), NotExcluded)
            IN [k \in 1..Len(urlRanges) |->
                   Range("urlLinkMark", urlRanges[k].from, urlRanges[k].to, FALSE)]
        \* newDecorations before the sort
        Pushed(lines, listStructure, codeBlockRanges, listItemRanges, checkboxRanges,
               markdownLinkRanges, hiddenLineRanges, multiImages, imageRanges) ==
            Hidden(lines, listStructure)
              \o CodeBlocks(codeBlockRanges)
              \o Markers(Matches(collapseMarkerRegex, text))
              \o ListBullets(lines, listStructure, hiddenLineRanges, listItemRanges)
              \o Checkboxes(lines, listStructure, hiddenLineRanges, checkboxRanges)
              \o multiImages
              \o Images(imageRanges)
              \o InternalLinks(imageRanges \o codeBlockRanges \o listItemRanges
                                 \o checkboxRanges)
              \o MarkdownLinks(markdownLinkRanges)
              \o Urls(markdownLinkRanges \o imageRanges \o codeBlockRanges
                        \o listItemRanges \o checkboxRanges)
        \* the values the loops share, each computed once
        newDecorations ==
            CHOOSE ds \in
                { Pushed(lines, listStructure, codeBlockRanges, listItemRanges,
                         checkboxRanges, markdownLinkRanges,
                         Hidden(lines, listStructure), multiImages,
                         ImageRanges(multiImages)) :
                    lines \in {SplitLines(text)},
                    listStructure \in {parseListStructure(text)},
                    codeBlockRanges \in {Matches(codeBlockRegex, text)},
                    listItemRanges \in {Matches(listItemRegex, text)},
                    checkboxRanges \in {Matches(checkboxRegex, text)},
                    markdownLinkRanges \in {Matches(markdownLinkRegex, text)},
                    multiImages \in {MultiImages(SplitLines(text))} } : TRUE
    IN SortByFrom(newDecorations)

-----------------------------------------------------------------------------
(* One section's CodeMirror editor: selection, code-block collapse states, the  *)
(* decorations of linkField, and the widget click handlers of createGridItem.   *)

\* line.replace(/w/g, '') for a literal w
RECURSIVE RemoveAll(_, _)
RemoveAll(s, w) ==
    IF s = <<>> THEN <<>>
    ELSE IF HasAt(s, 0, w) THEN RemoveAll(SubSeq(s, Len(w) + 1, Len(s)), w)
    ELSE <<Head(s)>> \o RemoveAll(Tail(s), w)

\* the changes toggleListCollapse collects for the lines after lineNumber, from
\* line i on: a line indented deeper than the parent is marked or unmarked, a list
\* item at the parent's indentation or less ends the loop
RECURSIVE ChildChanges(_, _, _, _)
ChildChanges(lines, i, parentIndentLevel, newCollapsedState) ==
    IF i >= Len(lines) THEN <<>>
    ELSE LET line == lines[i + 1]
             lineStart == LineStart(lines, i)
             lineIndentLevel == RunLen(line, 0, {" ", "\n", "\t", "\r"})
             \* restOfLine.trim().length > 0
             hasRest == lineIndentLevel < Len(line)
             \* restOfLine.match(/^[-*]\s+/)
             isItem == /\ lineIndentLevel + 1 < Len(line)
                       /\ line[lineIndentLevel + 1] \in {"-", "*"}
                       /\ IsWhitespace(line[lineIndentLevel + 2])
             newChildContent ==
                 IF newCollapsedState
                 THEN IF Includes(line, HIDDEN_MARKER) THEN line
                      ELSE line \o HIDDEN_MARKER
                 ELSE RemoveAll(line, HIDDEN_MARKER)
         IN IF lineIndentLevel > parentIndentLevel /\ hasRest
            THEN <<[from |-> lineStart, to |-> lineStart + Len(line),
                    insert |-> newChildContent]>>
                 \o ChildChanges(lines, i + 1, parentIndentLevel, newCollapsedState)
            ELSE IF lineIndentLevel <= parentIndentLevel /\ isItem THEN <<>>
            ELSE ChildChanges(lines, i + 1, parentIndentLevel, newCollapsedState)

\* the changes toggleListCollapse(editor, lineNumber, isCollapsed) dispatches on
\* the document text; <<>> when it dispatches nothing
toggleListCollapse(text, lineNumber, isCollapsed) ==
    LET lines == SplitLines(text)
        newCollapsedState == ~isCollapsed
    IN IF lineNumber >= Len(lines) THEN <<>>
       ELSE LET line == lines[lineNumber + 1]
                lineStart == LineStart(lines, lineNumber)
                parentIndentLevel == RunLen(line, 0, {" ", "\n", "\t", "\r"})
                newLineContent ==
                    IF newCollapsedState
                    THEN IF Includes(line, COLLAPSED_MARKER) THEN line
                         ELSE line \o COLLAPSED_MARKER
                    ELSE RemoveAll(line, COLLAPSED_MARKER)
            IN <<[from |-> lineStart, to |-> lineStart + Len(line),
                  insert |-> newLineContent]>>
               \o ChildChanges(lines, lineNumber + 1, parentIndentLevel,
                               newCollapsedState)

\* a toggleCheckbox that writes the checked state whatever the widget's state was
toggleCheckboxSet(text, lineNumber, isChecked) ==
    LET lines == SplitLines(text)
    IN IF lineNumber >= Len(lines) THEN <<>>
       ELSE LET line == lines[lineNumber + 1]
                lineStart == LineStart(lines, lineNumber)
                indent == RunLen(line, 0, {" ", "\n", "\t", "\r"})
            IN IF checkboxRegex(line, 0) = 0 THEN <<>>
               ELSE <<[from |-> lineStart, to |-> lineStart + Len(line),
                       insert |-> [line EXCEPT ![indent + 4] = "x"]]>>

\* the changes toggleCheckbox(editor, lineNumber, isChecked) dispatches
toggleCheckbox(text, lineNumber, isChecked) ==
    LET lines == SplitLines(text)
    IN IF lineNumber >= Len(lines) THEN <<>>
       ELSE LET line == lines[lineNumber + 1]
                lineStart == LineStart(lines, lineNumber)
                indent == RunLen(line, 0, {" ", "\n", "\t", "\r"})
                \* line.match(/^(\s*)- (\[[ x]\]) (.*)$/): the dot of (.*) stops
                \* at a carriage return
                checkboxMatch ==
                    /\ checkboxRegex(line, 0) > 0
                    /\ \A k \in (indent + 7)..Len(line) : line[k] # "\r"
                newState == IF isChecked THEN " " ELSE "x"
            IN IF ~checkboxMatch THEN <<>>
               ELSE <<[from |-> lineStart, to |-> lineStart + Len(line),
                       insert |-> [line EXCEPT ![indent + 4] = newState]]>>

\* the document after a transaction's changes (given in offsets of text, ascending)
RECURSIVE ApplyChanges(_, _)
ApplyChanges(text, changes) ==
    IF changes = <<>> THEN text
    ELSE LET c == changes[Len(changes)]
         IN ApplyChanges(SubSeq(text, 1, c.from) \o c.insert
                           \o SubSeq(text, c.to + 1, Len(text)),
                         SubSeq(changes, 1, Len(changes) - 1))

\* the growth of the document by the first n changes
RECURSIVE Growth(_, _)
Growth(changes, n) ==
    IF n = 0 THEN 0
    ELSE Growth(changes, n - 1) + Len(changes[n].insert)
           - (changes[n].to - changes[n].from)

\* ChangeSet.mapPos(pos, assoc) of CodeMirror: a position inside a replaced range
\* moves to the start of the replacement (assoc < 0, or at the start of the range)
\* or to its end
MapPos(changes, pos, assoc) ==
    LET inside == {k \in 1..Len(changes) :
                      /\ changes[k].from <= pos
                      /\ \/ pos < changes[k].to
                         \/ pos = changes[k].to /\ assoc < 0
                              /\ changes[k].from = changes[k].to}
        before == {k \in 1..Len(changes) : changes[k].to <= pos}
    IN IF inside # {}
       THEN LET k == CHOOSE j \in inside : TRUE
            IN IF pos = changes[k].from \/ assoc < 0
               THEN changes[k].from + Growth(changes, k - 1)
               ELSE changes[k].from + Growth(changes, k - 1) + Len(changes[k].insert)
       ELSE pos + Growth(changes, Cardinality(before))

\* SelectionRange.map(changes) of CodeMirror
MapSelection(changes, selection) ==
    IF selection.from = selection.to
    THEN LET p == MapPos(changes, selection.from, -1) IN [from |-> p, to |-> p]
    ELSE LET f == MapPos(changes, selection.from, 1)
             t == MapPos(changes, selection.to, -1)
         IN [from |-> Min(f, t), to |-> IF f <= t THEN t ELSE f]

\* the section whose editor is observed
EditorTitle == PURPOSE

\* the longest document of list structure typed into the editor, in lines
MaxEditorLines == 3

\* the longest document of inline markup, in lines
MaxInlineLines == 2

\* the transactions and toggle events of one run
MaxEditorEvents == 2

\* lines of list structure: list items of three depths, a checkbox and a line of
\* plain text
ListLineKinds ==
    { <<"-", " ", "p">>,
      <<" ", " ", "-", " ", "c">>,
      <<" ", " ", " ", " ", "-", " ", "g">>,
      <<"-", " ", "[", " ", "]", " ", "t">>,
      <<"x">> }

\* lines of inline markup: images, a line of two images, a link, an empty code
\* block, a URL, a list item and a blank line
InlineLineKinds ==
    { <<>>,
      <<"!", "[", "[", "i", "]", "]">>,
      <<"!", "[", "a", "]", "(", "u", ")">>,
      <<"!", "[", "[", "i", "]", "]", "!", "[", "a", "]", "(", "u", ")">>,
      <<"[", "t", "]", "(", "u", ")">>,
      Fence \o Fence,
      <<"h", "t", "t", "p", ":", "/", "/", "u">>,
      <<"-", " ", "p">> }

EditorDocs ==
    { JoinLines(ls) :
        ls \in UNION { [1..n -> ListLineKinds] : n \in 1..MaxEditorLines } }
    \cup
    { JoinLines(ls) :
        ls \in UNION { [1..n -> InlineLineKinds] : n \in 1..MaxInlineLines } }

\* the document of the observed editor
Doc == editors[EditorTitle]

\* the view after setState on an empty file, renderView, and the user typing the
\* document d into the section's editor: the updateListener has run, the cursor
\* is where EditorState.create put it. cm.ops is the history of the transactions
\* and toggle events since, each with the document it met.
EditorOpened(docs) ==
    /\ file = <<>>
    /\ fileCache = NoFrontmatter
    /\ bound = TRUE
    /\ \E d \in docs :
          /\ editors = [t \in Titles |-> IF t = EditorTitle THEN d ELSE <<>>]
          /\ editorData = SetKey(<<>>, EditorTitle, d)
          /\ cm = [selection |-> [from |-> 0, to |-> 0],
                   collapseStates |-> <<>>,
                   decorations |-> scanForLinks(d, [from |-> 0, to |-> 0], <<>>),
                   ops |-> <<>>]
    /\ saveTimeout = 1
    /\ timers = SetKey(<<>>, 1, DebounceMs)
    /\ isUpdating = FALSE
    /\ saves = {}
    /\ refreshes = {}
    /\ modifyEvents = <<>>
    /\ fileChangeHandler = FALSE
    /\ notices = 0
    /\ hist = NoHistory
    /\ codec = <<>>
    /\ ui = Attached
    /\ plugin = Loaded

InitEditor == EditorOpened(EditorDocs)

\* an entry of cm.ops: the event, its detail (line number or block index, and the
\* widget's flag), whether a widget with this detail was shown, the document, the
\* selection and the decorations before it, and the number of editor.dispatch
\* calls it made
Op(op, lineNumber, flag, clicked, dispatches) ==
    [op |-> op, lineNumber |-> lineNumber, flag |-> flag, clicked |-> clicked,
     doc |-> Doc, selection |-> cm.selection, decorations |-> cm.decorations,
     dispatches |-> dispatches]

\* a linkField.update that scans with the selection of the transaction's start state
LinkFieldStale(text, selection, collapseStates, startSelection) ==
    scanForLinks(text, startSelection, collapseStates)

\* linkField.update for a transaction that changes the selection only: the
\* decorations are scanned again with tr.state.selection.main
LinkFieldUpdate(text, selection, collapseStates, startSelection) ==
    scanForLinks(text, selection, collapseStates)

\* a transaction that only moves the selection
SelectionSet(from, to) ==
    /\ Len(cm.ops) < MaxEditorEvents
    /\ from <= to /\ to <= Len(Doc)
    /\ cm' = [cm EXCEPT
                !.selection = [from |-> from, to |-> to],
                !.decorations = LinkFieldUpdate(Doc, [from |-> from, to |-> to],
                                                cm.collapseStates, cm.selection),
                !.ops = Append(@, Op("selection", 0, FALSE, FALSE, 1))]
    /\ UNCHANGED <<file, fileCache, bound, editorData, editors, saveTimeout, timers,
                   isUpdating, saves, refreshes, modifyEvents,
                   fileChangeHandler, notices, hist, codec, ui, plugin>>

\* editor.dispatch({changes}) on the observed editor: the document and the mapped
\* selection change, linkField scans again, the updateListener (docChanged holds
\* for every non-empty change set) stores the text and calls debouncedSave; with
\* no changes nothing is dispatched
Dispatch(changes, op) ==
    IF changes = <<>>
    THEN /\ cm' = [cm EXCEPT !.ops = Append(@, op)]
         /\ UNCHANGED <<editors, editorData, saveTimeout, timers>>
    ELSE LET text == ApplyChanges(Doc, changes)
             selection == MapSelection(changes, cm.selection)
         IN /\ editors' = [editors EXCEPT ![EditorTitle] = text]
            /\ cm' = [cm EXCEPT
                        !.selection = selection,
                        !.decorations = scanForLinks(text, selection,
                                                     cm.collapseStates),
                        !.ops = Append(@, [op EXCEPT !.dispatches = 1])]
            /\ editorData' = SetKey(editorData, EditorTitle, text)
            /\ debouncedSave

\* the decorations hold a chevron (of a bullet or a checkbox with children) that
\* carries this line number and collapse state
ChevronShown(lineNumber, isCollapsed) ==
    \E k \in 1..Len(cm.decorations) :
        /\ cm.decorations[k].kind \in {"listBullet", "checkbox"}
        /\ cm.decorations[k].hasChildren
        /\ cm.decorations[k].lineNumber = lineNumber
        /\ cm.decorations[k].isCollapsed = isCollapsed

\* the decorations hold a checkbox widget with this line number and state
CheckboxShown(lineNumber, isChecked) ==
    \E k \in 1..Len(cm.decorations) :
        /\ cm.decorations[k].kind = "checkbox"
        /\ cm.decorations[k].lineNumber = lineNumber
        /\ cm.decorations[k].isChecked = isChecked

\* the 'toggleListCollapse' listener of createGridItem, with the event's detail
ToggleListCollapse(lineNumber, isCollapsed) ==
    /\ Len(cm.ops) < MaxEditorEvents
    /\ Dispatch(toggleListCollapse(Doc, lineNumber, isCollapsed),
                Op("toggleListCollapse", lineNumber, isCollapsed,
                   ChevronShown(lineNumber, isCollapsed), 0))
    /\ UNCHANGED <<file, fileCache, bound, isUpdating, saves, refreshes,
                   modifyEvents, fileChangeHandler, notices, hist, codec, ui, plugin>>

\* the 'toggleCheckbox' listener of createGridItem, with the event's detail
ToggleCheckbox(lineNumber, isChecked) ==
    /\ Len(cm.ops) < MaxEditorEvents
    /\ Dispatch(toggleCheckbox(Doc, lineNumber, isChecked),
                Op("toggleCheckbox", lineNumber, isChecked,
                   CheckboxShown(lineNumber, isChecked), 0))
    /\ UNCHANGED <<file, fileCache, bound, isUpdating, saves, refreshes,
                   modifyEvents, fileChangeHandler, notices, hist, codec, ui, plugin>>

\* the 'toggleCodeBlockCollapse' listener: the clicked widget's index among the
\* rendered code-block widgets and its collapse state go into toggleCodeBlockEffect;
\* codeBlockCollapseState stores it and linkField scans again
ToggleCodeBlockCollapse(clickedIndex) ==
    /\ Len(cm.ops) < MaxEditorEvents
    /\ LET IsCodeBlock(d) == d.kind = "codeBlock"
           allCodeBlocks == SelectSeq(cm.decorations, IsCodeBlock)
           isCollapsed == allCodeBlocks[clickedIndex + 1].isCollapsed
           collapseStates == SetKey(cm.collapseStates, clickedIndex, ~isCollapsed)
       IN /\ clickedIndex < Len(allCodeBlocks)
          /\ cm' = [cm EXCEPT
                   !.collapseStates = collapseStates,
                   !.decorations = scanForLinks(Doc, cm.selection, collapseStates),
                   !.ops = Append(@, Op("toggleCodeBlock", clickedIndex,
                                        isCollapsed, TRUE, 1))]
    /\ UNCHANGED <<file, fileCache, bound, editorData, editors, saveTimeout, timers,
                   isUpdating, saves, refreshes, modifyEvents,
                   fileChangeHandler, notices, hist, codec, ui, plugin>>

\* the offsets the modelled user puts the cursor at: the ends of the document and
\* of every decorated range
CursorStops ==
    {0, Len(Doc)}
      \cup {cm.decorations[k].from : k \in 1..Len(cm.decorations)}
      \cup {cm.decorations[k].to : k \in 1..Len(cm.decorations)}

\* the line number of an event's detail is any line of the document or one past
\* the last
NextEditor ==
    \/ \E p \in CursorStops : SelectionSet(p, p)
    \/ SelectionSet(0, Len(Doc))
    \/ \E n \in 0..Len(SplitLines(Doc)), c \in BOOLEAN : ToggleListCollapse(n, c)
    \/ \E n \in 0..Len(SplitLines(Doc)), c \in BOOLEAN : ToggleCheckbox(n, c)
    \/ \E k \in 0..1 : ToggleCodeBlockCollapse(k)

SpecEditor == InitEditor /\ [][NextEditor]_vars

-----------------------------------------------------------------------------
(* The CodeMirror SurveyNoteView with its leaf: focus, failing vault calls and  *)
(* onClose, src/view.ts:2288-2295, 2373-2418, 2517-2545.                         *)

\* the user puts the cursor into the editor of a section
Focus(title) ==
    /\ ~ui.closed
    /\ title \in DOMAIN editors
    /\ ui.focus = NoFocus
    /\ ui' = [ui EXCEPT !.focus = title]
    /\ UNCHANGED <<file, fileCache, bound, editorData, editors, saveTimeout, timers,
                   isUpdating, saves, refreshes, modifyEvents,
                   fileChangeHandler, notices, hist, codec, cm, plugin>>

\* the editor of a section loses the focus: createGridItem registers an
\* updateListener and the toggle listeners only, so no code of the view runs
Blur(title) ==
    /\ ~ui.closed
    /\ ui.focus = title
    /\ ui' = [ui EXCEPT !.focus = NoFocus]
    /\ UNCHANGED <<file, fileCache, bound, editorData, editors, saveTimeout, timers,
                   isUpdating, saves, refreshes, modifyEvents,
                   fileChangeHandler, notices, hist, codec, cm, plugin>>

\* `await this.app.vault.read(this.file)` rejects: saveMarkdown has no catch, the
\* finally block resets the flag and the rejection leaves through the promise
\* that the timer callback does not await
SaveReadFailed(s) ==
    /\ s \in saves
    /\ s.pc = "read"
    /\ saves' = saves \ {s}
    /\ isUpdating' = FALSE
    /\ UNCHANGED <<file, fileCache, bound, editorData, editors, saveTimeout, timers,
                   refreshes, modifyEvents,
                   fileChangeHandler, notices, hist, codec, cm, ui, plugin>>

\* `await this.app.vault.modify(this.file, finalContent)` rejects: the file is as
\* it was, the finally block resets the flag
SaveWriteFailed(s) ==
    /\ s \in saves
    /\ s.pc = "write"
    /\ saves' = saves \ {s}
    /\ isUpdating' = FALSE
    /\ UNCHANGED <<file, fileCache, bound, editorData, editors, saveTimeout, timers,
                   refreshes, modifyEvents,
                   fileChangeHandler, notices, hist, codec, cm, ui, plugin>>

\* an onClose that leaves the pending timer armed
onCloseKeepsTimer ==
    /\ ~ui.closed
    /\ ui' = [ui EXCEPT !.focus = NoFocus, !.closed = TRUE,
                        !.pendingAtClose = DOMAIN timers # {},
                        !.firesAtClose = hist.fires]
    /\ UNCHANGED <<file, fileCache, bound, editorData, editors, saveTimeout, timers,
                   isUpdating, saves, refreshes, modifyEvents,
                   fileChangeHandler, notices, hist, codec, cm, plugin>>

\* onClose(): the pending timer is cleared (saveTimeout keeps its handle) and every
\* editor is destroyed
onClose ==
    /\ ~ui.closed
    /\ timers' = ClearTimeout(timers, saveTimeout)
    /\ ui' = [ui EXCEPT !.focus = NoFocus, !.closed = TRUE,
                        !.pendingAtClose = DOMAIN timers # {},
                        !.firesAtClose = hist.fires]
    /\ UNCHANGED <<file, fileCache, bound, editorData, editors, saveTimeout,
                   isUpdating, saves, refreshes, modifyEvents,
                   fileChangeHandler, notices, hist, codec, cm, plugin>>

\* the steps of Next, the user's among them only while the view is open and typing
\* only in the focused editor, together with focus changes, failing vault calls
\* and onClose
NextLifecycle ==
    \/ ~ui.closed /\ setState
    \/ renderView
    \/ \E t \in EditTitles, x \in EditTexts : ui.focus = t /\ DocChanged(t, x)
    \/ Tick
    \/ \E h \in DOMAIN timers : TimerFire(h)
    \/ \E s \in saves : SaveReadDone(s)
    \/ \E s \in saves : SaveWriteDone(s)
    \/ MetadataReindex
    \/ \E d \in FileDocs : ExternalModify(d)
    \/ \E t \in Titles : ~ui.closed /\ ImageResize(t, ImagePath, <<>>)
    \/ \E t \in EditTitles : ~ui.closed /\ ImageDrop(t, Len(OrEmpty(editors, t)))
    \/ \E t \in EditTitles : Focus(t)
    \/ \E t \in EditTitles : Blur(t)
    \/ \E s \in saves : SaveReadFailed(s)
    \/ \E s \in saves : SaveWriteFailed(s)
    \/ onClose

SpecLifecycle == Init /\ [][NextLifecycle]_vars
-----------------------------------------------------------------------------
(* Key handling of a section's editor: the keymaps of EditorState.create in
   their order of precedence, and the commands of createListInputHandler,
   src/view.ts:2027-2247 and 2530-2542 *)

\* state.doc.lineAt(pos): the line that holds pos, with the offset of its start
LineAt(text, pos) ==
    LET lines == SplitLines(text)
        n == LineNumberOf(lines, pos)
    IN [from |-> LineStart(lines, n), text |-> lines[n + 1]]

\* the length of the match of /^(\s*)/ on a line
IndentLen(lineText) == Len(lineText) - Len(TrimStart(lineText))

\* what a command reports to the keymap: false, or true after one dispatch of
\* changes with the cursor put at anchor
NotHandled == [handled |-> FALSE, changes |-> <<>>, anchor |-> 0]

Handled(from, to, insert, anchor) ==
    [handled |-> TRUE,
     changes |-> <<[from |-> from, to |-> to, insert |-> insert]>>,
     anchor |-> anchor]

handleBackspace(text, selection) ==
    IF selection.from # selection.to THEN NotHandled
    ELSE LET line == LineAt(text, selection.from)
             pos == selection.from - line.from
             indentLen == IndentLen(line.text)
             indent == SubSeq(line.text, 1, indentLen)
             \* listMatch[2], of /^(\s*)(.+)$/: the rest of the line; of a line
             \* of white space its last character
             content == IF indentLen = Len(line.text)
                        THEN <<line.text[Len(line.text)]>>
                        ELSE SubSeq(line.text, indentLen + 1, Len(line.text))
         IN IF pos = 0 /\ Len(line.text) > 0
            THEN \* indent + '- ' + content matches /^(\s*)([-*])(\s+)/ always
                 IF Len(Trim(content)) > 0
                 THEN Handled(line.from, line.from + indentLen,
                              indent \o <<"-", " ">>, line.from + indentLen + 2)
                 ELSE \* the checkbox reconstruction asks for the same content
                      NotHandled
            ELSE NotHandled

handleEnter(text, selection) ==
    IF selection.from # selection.to THEN NotHandled
    ELSE LET line == LineAt(text, selection.from)
             pos == selection.from - line.from
             indentLen == IndentLen(line.text)
             indent == SubSeq(line.text, 1, indentLen)
             content == Trim(SubSeq(line.text, indentLen + 1, Len(line.text)))
         IN IF Len(content) > 0 /\ pos >= indentLen
            THEN Handled(selection.from, selection.to, <<"\n">> \o indent,
                         selection.from + 1 + indentLen)
            ELSE NotHandled

handleTab(text, selection) ==
    IF selection.from # selection.to THEN NotHandled
    ELSE LET line == LineAt(text, selection.from)
             pos == selection.from - line.from
             indentEnd == IndentLen(line.text)
             currentIndent == SubSeq(line.text, 1, indentEnd)
             newIndent == <<" ", " ", " ", " ">>
         IN IF pos <= indentEnd
            THEN Handled(line.from, line.from + indentEnd,
                         currentIndent \o newIndent,
                         line.from + indentEnd + Len(newIndent))
            ELSE NotHandled

\* the keys the keymaps bind in common
Keys == {"Backspace", "Enter", "Tab"}

\* keymap.of([{key: "Backspace", ...}, {key: "Enter", ...}, {key: "Tab", ...}])
\* of createListInputHandler
listKeymap(key, text, selection) ==
    CASE key = "Backspace" -> handleBackspace(text, selection)
      [] key = "Enter" -> handleEnter(text, selection)
      [] key = "Tab" -> handleTab(text, selection)

\* keymap.of([...defaultKeymap, ...historyKeymap, indentWithTab]): Backspace runs
\* deleteCharBackward, which deletes the selection or the character before the
\* cursor and reports false when there is nothing to delete; Enter runs
\* insertNewlineAndIndent, which replaces the selection by a line break and the
\* line's indentation; Tab runs indentMore, which puts one indent unit (two
\* spaces) before the lines of the selection. The last two report true on every
\* editor that is not read-only.
defaultKeymap(key, text, selection) ==
    LET line == LineAt(text, selection.from)
        indentLen == IndentLen(line.text)
    IN CASE key = "Backspace" ->
              IF selection.from # selection.to
              THEN Handled(selection.from, selection.to, <<>>, selection.from)
              ELSE IF selection.from = 0 THEN NotHandled
              ELSE Handled(selection.from - 1, selection.from, <<>>,
                           selection.from - 1)
         [] key = "Enter" ->
              Handled(selection.from, selection.to,
                      <<"\n">> \o SubSeq(line.text, 1, indentLen),
                      selection.from + 1 + indentLen)
         [] key = "Tab" ->
              LET starts == {LineStart(SplitLines(text), n) :
                                n \in LineNumberOf(SplitLines(text), selection.from)
                                      ..LineNumberOf(SplitLines(text), selection.to)}
                  Nth(k) == CHOOSE s \in starts :
                               Cardinality({u \in starts : u < s}) = k - 1
              IN [handled |-> TRUE,
                  changes |-> [k \in 1..Cardinality(starts) |->
                                 [from |-> Nth(k), to |-> Nth(k),
                                  insert |-> <<" ", " ">>]],
                  anchor |-> selection.to + 2 * Cardinality(starts)]

\* lines for the key handlers: list items of two depths, a line of plain text, an
\* indented line of plain text, a line of white space and an empty line
KeyLineKinds ==
    { <<"-", " ", "p">>,
      <<" ", " ", "-", " ", "c">>,
      <<"x">>,
      <<" ", " ", "y">>,
      <<" ", " ">>,
      <<>> }

KeyDocs ==
    { JoinLines(ls) :
        ls \in UNION { [1..n -> KeyLineKinds] : n \in 1..MaxInlineLines } }

InitKeys == EditorOpened(KeyDocs)

\* a command's result on the observed editor: when it reports true its dispatch
\* has changed the document and the selection, linkField has scanned again and
\* the updateListener has stored the text and called debouncedSave. cm.ops notes
\* the key, the keymap whose command handled it and what the list handler of the
\* key reports on the state the key met.
KeyResult(key, by, result) ==
    LET text == ApplyChanges(Doc, result.changes)
        selection == [from |-> result.anchor, to |-> result.anchor]
        op == [op |-> key, by |-> IF result.handled THEN by ELSE "none",
               handled |-> result.handled,
               matches |-> listKeymap(key, Doc, cm.selection).handled,
               doc |-> Doc, selection |-> cm.selection]
    IN /\ Len(cm.ops) < MaxEditorEvents
       /\ IF result.handled
          THEN /\ editors' = [editors EXCEPT ![EditorTitle] = text]
               /\ cm' = [cm EXCEPT
                           !.selection = selection,
                           !.decorations = scanForLinks(text, selection,
                                                        cm.collapseStates),
                           !.ops = Append(@, op)]
               /\ editorData' = SetKey(editorData, EditorTitle, text)
               /\ debouncedSave
          ELSE /\ cm' = [cm EXCEPT !.ops = Append(@, op)]
               /\ UNCHANGED <<editors, editorData, saveTimeout, timers>>
       /\ UNCHANGED <<file, fileCache, bound, isUpdating, saves, refreshes,
                      modifyEvents, fileChangeHandler, notices, hist, codec, ui, plugin>>

\* a key press on the focused editor: the bindings of the key run in the order of
\* the keymaps in the extensions of EditorState.create, none of which is wrapped
\* in a precedence, until one reports true
KeyDown(key) ==
    LET default == defaultKeymap(key, Doc, cm.selection)
    IN IF default.handled
       THEN KeyResult(key, "defaultKeymap", default)
       ELSE KeyResult(key, "listKeymap", listKeymap(key, Doc, cm.selection))

\* the run command of a binding of createListInputHandler called on the view
RunCommand(key) ==
    KeyResult(key, "listKeymap", listKeymap(key, Doc, cm.selection))

NextKeymap ==
    \/ \E p \in 0..Len(Doc) : SelectionSet(p, p)
    \/ SelectionSet(0, Len(Doc))
    \/ \E key \in Keys : KeyDown(key)

SpecKeymap == InitKeys /\ [][NextKeymap]_vars

NextCommands ==
    \/ \E p \in 0..Len(Doc) : SelectionSet(p, p)
    \/ SelectionSet(0, Len(Doc))
    \/ \E key \in Keys : RunCommand(key)

SpecCommands == InitKeys /\ [][NextCommands]_vars

-----------------------------------------------------------------------------
(* The plugin's view switching, src/unnamed/part_001:138-167 and 262-298 *)

\* the delay after which a manual switch resets manualViewSwitch
ResetDelayMs == 200

\* the delay of checkAndAutoSwitchToSurveyNote before it reads the metadata
AutoSwitchDelayMs == 100

\* the time that passes in one step of the plugin's clock
SwitchTickMs == 100

\* the calls of setSurveyNoteView and setMarkdownView that are not over at once
MaxSwitches == 2

\* the files of the vault: a.md has the survey-note-view property, b.md has not
PluginFiles == {"a.md", "b.md"}

hasSurveyNoteProperty(f) == f = "a.md"

\* setSurveyNoteView(leaf) / setMarkdownView(leaf) up to the await: the flag is
\* set and leaf.setViewState({type}) is started
setView(p, type) ==
    LET id == CHOOSE n \in 1..(MaxSwitches + Cardinality(PluginFiles)) :
                  n \notin DOMAIN p.switches
    IN [p EXCEPT !.manualViewSwitch = TRUE,
                 !.switches = SetKey(@, id, [type |-> type, awaiting |-> TRUE,
                                             ms |-> ResetDelayMs])]

\* toggleView(), from the ribbon icon or the toggle command
toggleView ==
    /\ Cardinality(DOMAIN plugin.switches) < MaxSwitches
    /\ plugin' = setView(plugin, IF plugin.view = "markdown" THEN "surveynote"
                                 ELSE "markdown")
    /\ UNCHANGED <<file, fileCache, bound, editorData, editors, saveTimeout,
                   timers, isUpdating, saves, refreshes, modifyEvents,
                   fileChangeHandler, notices, hist, codec, cm, ui>>

\* leaf.setViewState resolves: the leaf shows the view of the requested type and
\* the switch arms its reset timer
SetViewStateDone(id) ==
    /\ plugin.switches[id].awaiting
    /\ plugin' = [plugin EXCEPT !.view = plugin.switches[id].type,
                                !.switches[id].awaiting = FALSE]
    /\ UNCHANGED <<file, fileCache, bound, editorData, editors, saveTimeout,
                   timers, isUpdating, saves, refreshes, modifyEvents,
                   fileChangeHandler, notices, hist, codec, cm, ui>>

\* the callback of a switch's setTimeout(..., 200)
ResetTimerFire(id) ==
    /\ ~plugin.switches[id].awaiting
    /\ plugin.switches[id].ms = 0
    /\ plugin' = [plugin EXCEPT !.manualViewSwitch = FALSE,
                                !.switches = Without(@, id)]
    /\ UNCHANGED <<file, fileCache, bound, editorData, editors, saveTimeout,
                   timers, isUpdating, saves, refreshes, modifyEvents,
                   fileChangeHandler, notices, hist, codec, cm, ui>>

\* the workspace's 'file-open' event for f, after the user opens f in the active
\* leaf (a newly opened file is shown in a Markdown view) or after a change of the
\* leaf's view: checkAndAutoSwitchToSurveyNote(f)
FileOpen(f) ==
    /\ plugin' =
         LET opened == [plugin EXCEPT !.file = f,
                                      !.view = IF f = plugin.file THEN @
                                               ELSE "markdown"]
         IN IF plugin.manualViewSwitch \/ f \in plugin.viewedFiles
            THEN opened
            ELSE [opened EXCEPT !.viewedFiles = @ \cup {f},
                                !.autoSwitches = SetKey(@, f, AutoSwitchDelayMs)]
    /\ UNCHANGED <<file, fileCache, bound, editorData, editors, saveTimeout,
                   timers, isUpdating, saves, refreshes, modifyEvents,
                   fileChangeHandler, notices, hist, codec, cm, ui>>

\* the callback of checkAndAutoSwitchToSurveyNote's setTimeout(..., 100)
AutoSwitchTimerFire(f) ==
    /\ plugin.autoSwitches[f] = 0
    /\ plugin' =
         LET fired == [plugin EXCEPT !.autoSwitches = Without(@, f)]
         IN IF hasSurveyNoteProperty(f) /\ plugin.view = "markdown"
                 /\ plugin.file = f
            THEN setView(fired, "surveynote")
            ELSE fired
    /\ UNCHANGED <<file, fileCache, bound, editorData, editors, saveTimeout,
                   timers, isUpdating, saves, refreshes, modifyEvents,
                   fileChangeHandler, notices, hist, codec, cm, ui>>

\* SwitchTickMs pass: no armed timer is due
PluginTick ==
    LET Left(ms) == IF ms > SwitchTickMs THEN ms - SwitchTickMs ELSE 0 IN
    /\ \A id \in DOMAIN plugin.switches :
          plugin.switches[id].awaiting \/ plugin.switches[id].ms > 0
    /\ \A f \in DOMAIN plugin.autoSwitches : plugin.autoSwitches[f] > 0
    /\ \/ \E id \in DOMAIN plugin.switches : ~plugin.switches[id].awaiting
       \/ DOMAIN plugin.autoSwitches # {}
    /\ plugin' = [plugin EXCEPT
                    !.switches = [id \in DOMAIN @ |->
                                    IF @[id].awaiting THEN @[id]
                                    ELSE [@[id] EXCEPT !.ms = Left(@)]],
                    !.autoSwitches = [f \in DOMAIN @ |-> Left(@[f])]]
    /\ UNCHANGED <<file, fileCache, bound, editorData, editors, saveTimeout,
                   timers, isUpdating, saves, refreshes, modifyEvents,
                   fileChangeHandler, notices, hist, codec, cm, ui>>

InitPlugin ==
    /\ Idle
    /\ file = <<>>
    /\ fileCache = NoFrontmatter
    /\ codec = <<>>
    /\ cm = <<>>
    /\ ui = Attached
    /\ plugin \in {[Loaded EXCEPT !.file = f] : f \in PluginFiles}

NextPlugin ==
    \/ toggleView
    \/ \E id \in DOMAIN plugin.switches : SetViewStateDone(id)
    \/ \E id \in DOMAIN plugin.switches : ResetTimerFire(id)
    \/ \E f \in PluginFiles : FileOpen(f)
    \/ \E f \in DOMAIN plugin.autoSwitches : AutoSwitchTimerFire(f)
    \/ PluginTick

SpecPlugin == InitPlugin /\ [][NextPlugin]_vars

-----------------------------------------------------------------------------
(* The save pipeline of the CodeMirror view under fair scheduling: time passes,
   due timers fire and started reads and writes complete,
   src/view.ts:2373-2418 and 2522-2527 *)

\* the user types "a" and then "b" into the section, or "b" at once, and then
\* stops; a dropped image can come before, between or after. No save changes the
\* frontmatter block here, so the metadata cache stays up to date.
NextSaving ==
    \/ setState
    \/ renderView
    \/ \E t \in EditTitles, x \in EditTexts :
          /\ t \in DOMAIN editors
          /\ editors[t] # <<"b">>
          /\ DocChanged(t, x)
    \/ Tick
    \/ \E h \in DOMAIN timers : TimerFire(h)
    \/ \E s \in saves : SaveReadDone(s)
    \/ \E s \in saves : SaveWriteDone(s)
    \/ \E t \in EditTitles : ImageDrop(t, Len(OrEmpty(editors, t)))

SpecSaving ==
    /\ Init
    /\ [][NextSaving]_vars
    /\ WF_vars(Tick)
    /\ WF_vars(\E h \in DOMAIN timers : TimerFire(h))
    /\ WF_vars(\E s \in saves : SaveReadDone(s))
    /\ WF_vars(\E s \in saves : SaveWriteDone(s))

-----------------------------------------------------------------------------
(* Collapse toggles on section text that already holds sentinel markers, as
   parsed from a file saved with collapsed items, src/view.ts:2767-2882 *)

\* lines of a list of three depths, the child also collapsed and the grandchild
\* also hidden
CollapseLineKinds ==
    { <<"-", " ", "p">>,
      <<" ", " ", "-", " ", "c">>,
      <<" ", " ", "-", " ", "c">> \o COLLAPSED_MARKER,
      <<" ", " ", " ", " ", "-", " ", "g">>,
      <<" ", " ", " ", " ", "-", " ", "g">> \o HIDDEN_MARKER }

CollapseDocs ==
    { JoinLines(ls) :
        ls \in UNION { [1..n -> CollapseLineKinds] : n \in 1..MaxEditorLines } }

InitCollapse == EditorOpened(CollapseDocs)

NextCollapse ==
    \E n \in 0..Len(SplitLines(Doc)), c \in BOOLEAN : ToggleListCollapse(n, c)

SpecCollapse == InitCollapse /\ [][NextCollapse]_vars


-----------------------------------------------------------------------------
(* Properties of the decoration scanner and the toggle handlers (SpecEditor) *)

\* C11: no two replace-style decoration ranges returned by the scanner (hidden
\* line, code block, collapse marker, bullet, checkbox, multi-image, image and
\* markdown-link widgets) overlap, for every text, selection and code-block
\* collapse map.
C11_ReplaceRangesDisjoint ==
    \A j, k \in 1..Len(cm.decorations) :
        (j < k /\ cm.decorations[j].replace /\ cm.decorations[k].replace)
            => \/ cm.decorations[j].to <= cm.decorations[k].from
               \/ cm.decorations[k].to <= cm.decorations[j].from

\* C12: after a click on the chevron of an expanded list item at line L, the lines
\* the next scan hides are exactly L's descendants: every line after L indented
\* deeper than L, up to the next line indented as L or less, whatever its depth,
\* and no sibling or later line.
C12_CollapseHidesDescendants ==
    LET last == cm.ops[Len(cm.ops)]
        L == last.lineNumber
        before == SplitLines(last.doc)
        Indent(i) == RunLen(before[i + 1], 0, {" ", "\t"})
        descendants == {i \in (L + 1)..(Len(before) - 1) :
                           \A j \in (L + 1)..i : Indent(j) > Indent(L)}
        lines == SplitLines(Doc)
        hiddenLines == {i \in 0..(Len(lines) - 1) :
                           \E k \in 1..Len(cm.decorations) :
                               /\ cm.decorations[k].kind = "hiddenLine"
                               /\ cm.decorations[k].from = LineStart(lines, i)}
    IN (/\ cm.ops # <<>>
        /\ last.op = "toggleListCollapse"
        /\ last.clicked
        /\ ~last.flag)
           => hiddenLines = descendants

\* C13: cursor-adjacency symmetry. Two selection-only transactions that move the
\* cursor away and back to its previous position leave the text unchanged and
\* give the decorations held before the move; and no selection-only transaction
\* changes the text.
C13_CursorSymmetry ==
    /\ \A k \in 1..Len(cm.ops) :
          cm.ops[k].op = "selection"
              => IF k < Len(cm.ops) THEN cm.ops[k + 1].doc = cm.ops[k].doc
                 ELSE Doc = cm.ops[k].doc
    /\ (/\ Len(cm.ops) = 2
        /\ cm.ops[1].op = "selection"
        /\ cm.ops[2].op = "selection"
        /\ cm.selection = cm.ops[1].selection)
           => /\ Doc = cm.ops[1].doc
              /\ cm.decorations = cm.ops[1].decorations

\* the cursor went into the range of a widget, which showed its raw text
\* meanwhile, and back
C13_MovedInAndBack ==
    /\ Len(cm.ops) = 2
    /\ cm.ops[1].op = "selection"
    /\ cm.ops[2].op = "selection"
    /\ cm.selection = cm.ops[1].selection
    /\ cm.ops[2].decorations # cm.ops[1].decorations
    /\ \E k \in 1..Len(cm.ops[1].decorations) :
          LET d == cm.ops[1].decorations[k]
          IN /\ d.replace
             /\ d.kind \in {"codeBlock", "multiImage", "image", "markdownLink"}
             /\ CursorInRange(cm.ops[2].selection, d.from, d.to)
             /\ ~CursorInRange(cm.selection, d.from, d.to)

\* C15: a click on the chevron of an expanded list item at line L of a document
\* without markers appends <!--COLLAPSED--> to line L and <!--HIDDEN--> to every
\* descendant line (the lines after L indented deeper than L, up to the next line
\* indented as L or less), changes no other line, dispatches exactly one
\* transaction, and the scan of the result has no bullet widget on the child line
\* L + 1.
C15_CollapseMarksDescendantsOnly ==
    LET op == cm.ops[1]
        L == op.lineNumber
        before == SplitLines(op.doc)
        Indent(i) == RunLen(before[i + 1], 0, {" ", "\t"})
        descendants == {i \in (L + 1)..(Len(before) - 1) :
                           \A j \in (L + 1)..i : Indent(j) > Indent(L)}
        lines == SplitLines(Doc)
    IN (/\ Len(cm.ops) = 1
        /\ op.op = "toggleListCollapse"
        /\ op.clicked
        /\ ~op.flag)
           => /\ op.dispatches = 1
              /\ Len(lines) = Len(before)
              /\ \A i \in 0..(Len(before) - 1) :
                    lines[i + 1] =
                        IF i = L THEN before[i + 1] \o COLLAPSED_MARKER
                        ELSE IF i \in descendants THEN before[i + 1] \o HIDDEN_MARKER
                        ELSE before[i + 1]
              /\ (L + 1) \in descendants
                    => ~\E k \in 1..Len(cm.decorations) :
                           /\ cm.decorations[k].kind = "listBullet"
                           /\ cm.decorations[k].lineNumber = L + 1

C17_StaleToggleNoOp ==
    \A k \in 1..Len(cm.ops) :
        LET op == cm.ops[k]
            L == op.lineNumber
            lines == SplitLines(op.doc)
            IsBox == checkboxRegex(RemoveMarkers(lines[L + 1]), 0) > 0
            IsItem == listItemRegex(RemoveMarkers(lines[L + 1]), 0) > 0
            stale == \/ L >= Len(lines)
                     \/ op.op = "toggleCheckbox" /\ ~IsBox
                     \/ op.op = "toggleListCollapse" /\ ~IsBox /\ ~IsItem
        IN (op.op \in {"toggleListCollapse", "toggleCheckbox"} /\ stale)
              => (IF k < Len(cm.ops) THEN cm.ops[k + 1].doc ELSE Doc) = op.doc

-----------------------------------------------------------------------------
(* The parse and serialize scenario (SpecCodec) *)

\* C14: parsing "## Purpose\nWhy\n\n## Summary\nTL;DR\n" yields exactly the sections
\* {Purpose: "Why", Summary: "TL;DR"}, and the document saveMarkdown builds from
\* those sections is "## Purpose\nWhy\n\n## Summary\nTL;DR": each heading line opens
\* its section, whose content is the lines up to the next heading.
C14_ScenarioParsedAndSerialized ==
    LET sections == SetKey(SetKey(<<>>, PURPOSE, <<"W", "h", "y">>),
                           SUMMARY, <<"T", "L", ";", "D", "R">>)
    IN codec.x = ScenarioDoc
         => /\ parseMarkdownContent(codec.x) = sections
            /\ FinalContent(NewSectionContent(sections, SaveSectionOrder, 1),
                            NoFrontmatter, codec.x)
                 = TrimEnd(ScenarioDoc)

-----------------------------------------------------------------------------
(* Properties of the view's lifecycle *)

\* C18: when the editor of a section loses the focus while an edit waits for its
\* debounce timer and no save is running, a save is started at that step.
C18_BlurFlushes ==
    [][\A t \in EditTitles :
          (Blur(t) /\ bound /\ ~isUpdating /\ DOMAIN timers # {})
              => saves' # saves]_vars

\* C19: when the read or the write of a save fails, a notice is shown, editorData
\* is as it was and the flag isUpdating is not left set.
C19_SaveFailureNoticed ==
    [][\A s \in saves :
          (SaveReadFailed(s) \/ SaveWriteFailed(s))
              => /\ notices' # notices
                 /\ editorData' = editorData
                 /\ ~isUpdating']_vars

\* C20: once onClose has run no debounce timer is armed, and the debounce callback
\* has not run since.
C20_CloseCancelsTimer ==
    ui.closed => /\ DOMAIN timers = {}
                 /\ hist.fires = ui.firesAtClose

\* the view was closed while an edit waited for its debounce timer, and the edit
\* is not in the file
C20_ClosedWithPendingEdit ==
    /\ ui.closed
    /\ ui.pendingAtClose
    /\ saves = {}
    /\ parseMarkdownContent(file) # editorData
-----------------------------------------------------------------------------
(* Claims about the key handlers *)

\* C21: whenever the list handler of a pressed key matches the state, the key is
\* processed by that handler and not by a command of the default keymap
C21_CustomHandlerFirst ==
    \A k \in 1..Len(cm.ops) :
        (cm.ops[k].op \in Keys /\ cm.ops[k].matches)
            => cm.ops[k].by = "listKeymap"

\* C22: handleEnter consumes the key exactly when the selection is a cursor past
\* the indent of a non-empty list item line, and then the document gains a line
\* break and the line's indentation at the cursor; in every other case it reports
\* not handled and the document stays as it was
C22_EnterContinuesListLine ==
    \A k \in 1..Len(cm.ops) :
        cm.ops[k].op = "Enter" =>
            LET before == cm.ops[k].doc
                after == IF k < Len(cm.ops) THEN cm.ops[k + 1].doc ELSE Doc
                sel == cm.ops[k].selection
                line == LineAt(before, sel.from)
                indentLen == IndentLen(line.text)
                isListItem == /\ Len(line.text) >= indentLen + 2
                              /\ line.text[indentLen + 1] \in {"-", "*"}
                              /\ IsWhitespace(line.text[indentLen + 2])
                applies == /\ sel.from = sel.to
                           /\ isListItem
                           /\ Len(Trim(line.text)) > 0
                           /\ sel.from - line.from >= indentLen
            IN /\ cm.ops[k].handled = applies
               /\ after = IF applies
                          THEN SubSeq(before, 1, sel.from) \o <<"\n">>
                                 \o SubSeq(line.text, 1, indentLen)
                                 \o SubSeq(before, sel.from + 1, Len(before))
                          ELSE before

\* C23: handleBackspace with the cursor at column 0 of a list item line consumes
\* the key and leaves the line without its bullet, indentation kept; on a line
\* that is not a list item it reports not handled and the document stays as it was
C23_BackspaceRemovesBullet ==
    \A k \in 1..Len(cm.ops) :
        cm.ops[k].op = "Backspace" =>
            LET before == cm.ops[k].doc
                after == IF k < Len(cm.ops) THEN cm.ops[k + 1].doc ELSE Doc
                sel == cm.ops[k].selection
                line == LineAt(before, sel.from)
                indentLen == IndentLen(line.text)
                isListItem == /\ Len(line.text) >= indentLen + 2
                              /\ line.text[indentLen + 1] \in {"-", "*"}
                              /\ IsWhitespace(line.text[indentLen + 2])
            IN /\ (sel.from = sel.to /\ sel.from = line.from /\ isListItem)
                    => /\ cm.ops[k].handled
                       /\ after = SubSeq(before, 1, line.from + indentLen)
                                    \o SubSeq(before, line.from + indentLen + 3,
                                              Len(before))
               /\ ~isListItem
                    => /\ ~cm.ops[k].handled
                       /\ after = before

-----------------------------------------------------------------------------
(* Claims about the list structure, the section codec and the code blocks *)

\* C24: in parseListStructure's result a list item has shouldHide exactly when a
\* list item that encloses it (a preceding item of lesser indentation with only
\* deeper items between the two) is collapsed
C24_HiddenIffAncestorCollapsed ==
    LET lines == SplitLines(Doc)
        listInfo == parseListStructure(Doc)
        Indent(i) == IndentLen(lines[i + 1])
        Encloses(j, i) ==
            /\ j < i
            /\ Indent(j) < Indent(i)
            /\ \A k \in DOMAIN listInfo : (j < k /\ k < i) => Indent(k) > Indent(j)
    IN \A i \in DOMAIN listInfo :
          listInfo[i].shouldHide
             = (\E j \in DOMAIN listInfo : Encloses(j, i) /\ listInfo[j].isCollapsed)

\* C25: every non-blank line between a section's heading line and the next
\* heading line is, character for character, a line of the section's parsed
\* content and a line of the document the next save builds
C25_OnlyBlankLinesTrimmed ==
    LET lines == SplitLines(codec.x)
        Title(i) == HeadingOf(lines[i], Marker, ParseSectionOrder)
        \* line i lies in the section opened by the heading line h
        Under(h, i) == /\ h < i
                       /\ Title(h) # <<>>
                       /\ \A k \in (h + 1)..i : Title(k) = <<>>
        \* no later heading line opens the same section again
        Last(h) == \A k \in (h + 1)..Len(lines) : Title(k) # Title(h)
    IN Len(codec.ys) >= 1 =>
          \A h \in 1..Len(lines), i \in 1..Len(lines) :
              (Under(h, i) /\ Last(h) /\ Trim(lines[i]) # <<>>)
                  => /\ lines[i] \in LinesOf(parseMarkdownContent(codec.x)[Title(h)])
                     /\ lines[i] \in LinesOf(codec.ys[1])

\* C26: a click on the collapse button of a code block widget flips the collapsed
\* flag (absent means collapsed) of that block, counted in occurrence order among
\* all code blocks of the text, rendered or shown as raw text, and no other flag
C26_CodeBlockFlagPerBlock ==
    [][\A clickedIndex \in 0..1 :
          ToggleCodeBlockCollapse(clickedIndex) =>
             LET IsWidget(d) == d.kind = "codeBlock"
                 IsBlock(d) == d.kind \in {"codeBlock", "codeBlockEditing"}
                 clicked == SelectSeq(cm.decorations, IsWidget)[clickedIndex + 1]
                 blocks == SelectSeq(cm.decorations, IsBlock)
                 occurrence == Cardinality({b \in 1..Len(blocks) :
                                               blocks[b].from < clicked.from})
                 Flag(states, b) == IF b \in DOMAIN states THEN states[b] ELSE TRUE
             IN \A b \in 0..(Len(blocks) - 1) :
                   Flag(cm'.collapseStates, b)
                     = IF b = occurrence THEN ~Flag(cm.collapseStates, b)
                       ELSE Flag(cm.collapseStates, b)]_vars

-----------------------------------------------------------------------------
(* Claims about the plugin's view switching *)

\* C27: manualViewSwitch is true as long as a manual switch is going on or ended
\* less than 200 ms ago, and a file-open event that meets the flag set arms no
\* auto-switch and marks no file as viewed
C27_FlagCoversManualSwitches ==
    [][/\ DOMAIN plugin'.switches # {} => plugin'.manualViewSwitch
       /\ \A f \in PluginFiles :
             (FileOpen(f) /\ plugin.manualViewSwitch)
                 => /\ plugin'.autoSwitches = plugin.autoSwitches
                    /\ plugin'.viewedFiles = plugin.viewedFiles]_vars

-----------------------------------------------------------------------------
(* Claims about the save pipeline under fair scheduling *)

\* C28: the user's edits being finitely many and every started read and write
\* completing, from some moment on it holds for good that, if the user has edited,
\* the file holds the serialization of editorData after the file's frontmatter:
\* saveMarkdown, run with an up-to-date metadata cache, would write nothing
C28_EveryEditPersisted ==
    <>[](hist.sinceEdit >= 0 =>
            ~NeedsWrite(file,
                        FinalContent(NewSectionContent(editorData,
                                                       SaveSectionOrder, 1),
                                     MetadataOf(file), file)))

-----------------------------------------------------------------------------
(* Claims about the textarea view's own writes *)

\* C29: when a write of the view itself completes and the vault raises 'modify'
\* for it, isUpdating is true, so the fileChangeHandler starts no refreshView and
\* shows no Notice, whichever saves are running
C29_OwnWriteNeverRefreshes ==
    [][\A s \in saves :
          TextareaSaveWriteDone(s)
              => /\ isUpdating
                 /\ refreshes' = refreshes
                 /\ notices' = notices]_vars

-----------------------------------------------------------------------------
(* Claims about collapsing and expanding *)

\* C30: a click on the chevron of an expanded list item followed by a click on the
\* chevron the collapsed item then shows leaves the section text the first click
\* met, markers of nested items included
C30_CollapseExpandRestores ==
    \A k \in 1..(Len(cm.ops) - 1) :
        (/\ cm.ops[k].op = "toggleListCollapse"
         /\ cm.ops[k + 1].op = "toggleListCollapse"
         /\ cm.ops[k + 1].lineNumber = cm.ops[k].lineNumber
         /\ cm.ops[k].clicked /\ ~cm.ops[k].flag
         /\ cm.ops[k + 1].clicked /\ cm.ops[k + 1].flag)
            => cm.ops[k].doc
                 = IF k + 1 < Len(cm.ops) THEN cm.ops[k + 2].doc ELSE Doc

====
